---- MODULE Spec2Model ----
(***************************************************************************)
(* Model of the payment-confirmation engine of agenda-smart-mz:            *)
(*   src/src/lib/paymentCodeExtractor.ts  (extraction and validation)      *)
(*   src/src/components/booking/PaymentStep.tsx (the confirm-payment flow) *)
(*                                                                         *)
(* Strings are sequences of one-character strings, so that stripping,      *)
(* prefixing, upper-casing and regular-expression matching are computed    *)
(* character by character, as the code does.  Amounts are integers in      *)
(* centavos (1 MZN = 100).                                                 *)
(***************************************************************************)
EXTENDS Integers, Sequences, FiniteSets, TLC

(***************************************************************************)
(* Characters and strings                                                  *)
(***************************************************************************)

\* null, comparable with every string of the model (no character is "NULL")
NULL == <<"NULL">>

Digits == {"0", "1", "2", "3", "4", "5", "6", "7", "8", "9"}

UpperLetters == {"A", "B", "C", "D", "E", "F", "G", "H", "I", "J", "K", "L", "M",
                 "N", "O", "P", "Q", "R", "S", "T", "U", "V", "W", "X", "Y", "Z"}

LowerLetters == {"a", "b", "c", "d", "e", "f", "g", "h", "i", "j", "k", "l", "m",
                 "n", "o", "p", "q", "r", "s", "t", "u", "v", "w", "x", "y", "z"}

UpperSeq == <<"A", "B", "C", "D", "E", "F", "G", "H", "I", "J", "K", "L", "M",
              "N", "O", "P", "Q", "R", "S", "T", "U", "V", "W", "X", "Y", "Z">>

LowerSeq == <<"a", "b", "c", "d", "e", "f", "g", "h", "i", "j", "k", "l", "m",
              "n", "o", "p", "q", "r", "s", "t", "u", "v", "w", "x", "y", "z">>

\* \s of a JavaScript regular expression, and what trim() removes
Whitespace == {" ", "\t", "\n"}

\* \w of a JavaScript regular expression
WordChars == Digits \cup UpperLetters \cup LowerLetters \cup {"_"}

LetterIndex(c, alphabet) == CHOOSE k \in 1..26 : alphabet[k] = c

\* String.prototype.toUpperCase, one character
ToUpperChar(c) == IF c \in LowerLetters THEN UpperSeq[LetterIndex(c, LowerSeq)] ELSE c

\* String.prototype.toLowerCase, one character
ToLowerChar(c) == IF c \in UpperLetters THEN LowerSeq[LetterIndex(c, UpperSeq)] ELSE c

RECURSIVE toUpperCase(_)
toUpperCase(s) ==
  IF s = <<>> THEN <<>> ELSE <<ToUpperChar(Head(s))>> \o toUpperCase(Tail(s))

RECURSIVE toLowerCase(_)
toLowerCase(s) ==
  IF s = <<>> THEN <<>> ELSE <<ToLowerChar(Head(s))>> \o toLowerCase(Tail(s))

\* s.startsWith(p)
startsWith(s, p) == Len(s) >= Len(p) /\ SubSeq(s, 1, Len(p)) = p

\* s.includes(w)
includes(s, w) == \E i \in 0..(Len(s) - Len(w)) : SubSeq(s, i + 1, i + Len(w)) = w

RECURSIVE Filter(_, _)
\* s.replace(/[^...]/g, ''): the characters of s that are in keep, in order
Filter(s, keep) ==
  IF s = <<>> THEN <<>>
  ELSE IF Head(s) \in keep THEN <<Head(s)>> \o Filter(Tail(s), keep)
  ELSE Filter(Tail(s), keep)

RECURSIVE TrimLeft(_)
TrimLeft(s) == IF s # <<>> /\ Head(s) \in Whitespace THEN TrimLeft(Tail(s)) ELSE s

RECURSIVE TrimRight(_)
TrimRight(s) ==
  IF s # <<>> /\ s[Len(s)] \in Whitespace THEN TrimRight(SubSeq(s, 1, Len(s) - 1)) ELSE s

\* String.prototype.trim
trim(s) == TrimRight(TrimLeft(s))

(***************************************************************************)
(* Regular expressions, with the backtracking semantics of JavaScript's    *)
(* RegExp: a pattern is a tree; Ends(re, s, i, ci) is the sequence of      *)
(* positions at which a match of re that starts at position i may end, in  *)
(* the order in which the backtracking matcher tries them (greedy          *)
(* quantifiers try the longest repetition first, alternatives are tried    *)
(* left to right).  A position i means that i characters were consumed.    *)
(* ci is the i flag.                                                       *)
(***************************************************************************)

\* one character out of a set: a literal character or a class such as \d, [A-Z0-9]
Chr(set) == [t |-> "chr", s |-> set]

\* a concatenation of patterns
Cat(rs) == [t |-> "cat", rs |-> rs]

RECURSIVE LitChars(_)
LitChars(w) == IF w = <<>> THEN <<>> ELSE <<Chr({Head(w)})>> \o LitChars(Tail(w))

\* the literal text w
Lit(w) == Cat(LitChars(w))

\* (?:a|b|...)
Alt(rs) == [t |-> "alt", rs |-> rs]

\* r{lo,hi}, greedy; hi = -1 stands for no upper limit
Rep(r, lo, hi) == [t |-> "rep", r |-> r, lo |-> lo, hi |-> hi]

\* r?
Opt(r) == Rep(r, 0, 1)

\* \b
WordBoundary == [t |-> "wb"]

\* the empty pattern
Empty == Cat(<<>>)

\* a character matches a set under the i flag when either of its cases is in the set
CharMatches(c, set, ci) ==
  c \in set \/ (ci /\ (ToUpperChar(c) \in set \/ ToLowerChar(c) \in set))

IsWordCharAt(s, k) == k >= 1 /\ k <= Len(s) /\ s[k] \in WordChars

RECURSIVE Ends(_, _, _, _)
RECURSIVE EndsCat(_, _, _, _, _)
RECURSIVE EndsCatFrom(_, _, _, _, _)
RECURSIVE EndsAlt(_, _, _, _, _)
RECURSIVE EndsRep(_, _, _, _, _, _)
RECURSIVE EndsRepFrom(_, _, _, _, _, _, _)

Ends(re, s, i, ci) ==
  CASE re.t = "chr" ->
         IF i < Len(s) /\ CharMatches(s[i + 1], re.s, ci) THEN <<i + 1>> ELSE <<>>
    [] re.t = "wb" ->
         IF IsWordCharAt(s, i) # IsWordCharAt(s, i + 1) THEN <<i>> ELSE <<>>
    [] re.t = "cat" -> EndsCat(re.rs, 1, s, i, ci)
    [] re.t = "alt" -> EndsAlt(re.rs, 1, s, i, ci)
    [] re.t = "rep" -> EndsRep(re.r, re.lo, re.hi, s, i, ci)

\* rs[k], rs[k+1], ... in sequence, from position i
EndsCat(rs, k, s, i, ci) ==
  IF k > Len(rs) THEN <<i>>
  ELSE EndsCatFrom(rs, k + 1, s, Ends(rs[k], s, i, ci), ci)

\* the rest of a concatenation, continued from each of the positions mids in turn
EndsCatFrom(rs, k, s, mids, ci) ==
  IF mids = <<>> THEN <<>>
  ELSE EndsCat(rs, k, s, Head(mids), ci) \o EndsCatFrom(rs, k, s, Tail(mids), ci)

EndsAlt(rs, k, s, i, ci) ==
  IF k > Len(rs) THEN <<>>
  ELSE Ends(rs[k], s, i, ci) \o EndsAlt(rs, k + 1, s, i, ci)

\* greedy: one more repetition is tried before stopping
EndsRep(r, lo, hi, s, i, ci) ==
  (IF hi = 0 THEN <<>> ELSE EndsRepFrom(r, lo, hi, s, i, Ends(r, s, i, ci), ci))
  \o (IF lo = 0 THEN <<i>> ELSE <<>>)

EndsRepFrom(r, lo, hi, s, i, mids, ci) ==
  IF mids = <<>> THEN <<>>
  ELSE (IF Head(mids) > i
        THEN EndsRep(r, IF lo > 0 THEN lo - 1 ELSE 0, IF hi > 0 THEN hi - 1 ELSE hi,
                     s, Head(mids), ci)
        ELSE <<>>)
       \o EndsRepFrom(r, lo, hi, s, i, Tail(mids), ci)

\* A regular expression with (at most) one capture group: pre (cap) post.
RegExp(pre, cap, post, ci) == [pre |-> pre, cap |-> cap, post |-> post, ci |-> ci]

NoMatch == [found |-> FALSE, start |-> 0, capS |-> 0, capE |-> 0, end |-> 0]

\* the match m when there is one, else the alternative
OrElse(m, other) == IF m.found THEN m ELSE other

\* the match that starts at i with the capture group at e1..e2, when post can end
\* somewhere (e3s lists where)
MatchEndingAt(i, e1, e2, e3s) ==
  IF e3s # <<>>
  THEN [found |-> TRUE, start |-> i, capS |-> e1, capE |-> e2, end |-> Head(e3s)]
  ELSE NoMatch

RECURSIVE ExecPost(_, _, _, _, _)
\* the first end of the capture group, in backtracking order, after which post matches
ExecPost(p, s, i, e1, e2s) ==
  IF e2s = <<>> THEN NoMatch
  ELSE OrElse(MatchEndingAt(i, e1, Head(e2s), Ends(p.post, s, Head(e2s), p.ci)),
              ExecPost(p, s, i, e1, Tail(e2s)))

RECURSIVE ExecCap(_, _, _, _)
ExecCap(p, s, i, e1s) ==
  IF e1s = <<>> THEN NoMatch
  ELSE OrElse(ExecPost(p, s, i, Head(e1s), Ends(p.cap, s, Head(e1s), p.ci)),
              ExecCap(p, s, i, Tail(e1s)))

\* the match of p that starts exactly at position i
ExecAt(p, s, i) == ExecCap(p, s, i, Ends(p.pre, s, i, p.ci))

RECURSIVE Search(_, _, _)
\* RegExp.prototype.exec with lastIndex = from: the leftmost match at or after from
Search(p, s, from) ==
  IF from > Len(s) THEN NoMatch
  ELSE OrElse(ExecAt(p, s, from), Search(p, s, from + 1))

RECURSIVE MatchAllFrom(_, _, _)
RECURSIVE MatchAllAfter(_, _, _)
\* the match m and those after it
MatchAllAfter(p, s, m) ==
  IF ~m.found THEN <<>>
  ELSE <<m>> \o MatchAllFrom(p, s, IF m.end = m.start THEN m.end + 1 ELSE m.end)

MatchAllFrom(p, s, from) == MatchAllAfter(p, s, Search(p, s, from))

\* s.matchAll(p) and, for a g pattern, the matches s.match(p) lists: every match,
\* left to right, each search resuming where the previous match ended
MatchAll(p, s) == MatchAllFrom(p, s, 0)

\* the text of a match, and of its capture group
MatchText(s, m) == SubSeq(s, m.start + 1, m.end)

Group1(s, m) == SubSeq(s, m.capS + 1, m.capE)

Contains(seq, x) == \E k \in 1..Len(seq) : seq[k] = x

\* p.test(s) for a pattern of the form ^...$ : re matches the whole of s
TestWhole(re, s) == Contains(Ends(re, s, 0, FALSE), Len(s))

(***************************************************************************)
(* src/src/lib/paymentCodeExtractor.ts                                     *)
(***************************************************************************)

AlphaNum == UpperLetters \cup Digits

\* \d{n}
DigitsN(n) == Rep(Chr(Digits), n, n)

\* \s*
Spaces0 == Rep(Chr(Whitespace), 0, -1)

\* /Confirmado\s+([A-Z0-9]{10,12})/i
MPESA_PATTERN_CONFIRMED ==
  RegExp(Cat(<<Lit(<<"C", "o", "n", "f", "i", "r", "m", "a", "d", "o">>), Rep(Chr(Whitespace), 1, -1)>>),
         Rep(Chr(AlphaNum), 10, 12), Empty, TRUE)

\* /\b[A-Z0-9]{10,12}\b/g
MPESA_PATTERN_FALLBACK ==
  RegExp(Cat(<<WordBoundary, Rep(Chr(AlphaNum), 10, 12), WordBoundary>>),
         Empty, Empty, FALSE)

\* PP or CI, then \d{6}\.\d{4}\.[A-Z]\d{5}
EmolaCodeShape(prefix) ==
  Cat(<<Lit(prefix), DigitsN(6), Lit(<<".">>), DigitsN(4), Lit(<<".">>),
        Chr(UpperLetters), DigitsN(5)>>)

\* /\bPP\d{6}\.\d{4}\.[A-Z]\d{5}\b/gi
EMOLA_PATTERN_A ==
  RegExp(Cat(<<WordBoundary, EmolaCodeShape(<<"P", "P">>), WordBoundary>>), Empty, Empty, TRUE)

\* /\bCI\d{6}\.\d{4}\.[A-Z]\d{5}\b/gi
EMOLA_PATTERN_B ==
  RegExp(Cat(<<WordBoundary, EmolaCodeShape(<<"C", "I">>), WordBoundary>>), Empty, Empty, TRUE)

\* /\b(?:PP|CI)[A-Z0-9.]{6,}\b/gi
EMOLA_PATTERN_GENERIC ==
  RegExp(Cat(<<WordBoundary, Alt(<<Lit(<<"P", "P">>), Lit(<<"C", "I">>)>>),
               Rep(Chr(AlphaNum \cup {"."}), 6, -1), WordBoundary>>),
         Empty, Empty, TRUE)

\* \d{1,6}(?:[.,]\d{1,2})?
AmountToken ==
  Cat(<<Rep(Chr(Digits), 1, 6),
        Opt(Cat(<<Chr({".", ","}), Rep(Chr(Digits), 1, 2)>>))>>)

\* /(\d{1,6}(?:[.,]\d{1,2})?)\s*MT/gi,
\* /(?:transferiste|recebeste|enviaste|valor|montante)\s*[:\s]*(\d{1,6}(?:[.,]\d{1,2})?)/gi
AMOUNT_PATTERNS ==
  << RegExp(Empty, AmountToken, Cat(<<Spaces0, Lit(<<"M", "T">>)>>), TRUE),
     RegExp(Cat(<<Alt(<<Lit(<<"t", "r", "a", "n", "s", "f", "e", "r", "i", "s", "t", "e">>), Lit(<<"r", "e", "c", "e", "b", "e", "s", "t", "e">>), Lit(<<"e", "n", "v", "i", "a", "s", "t", "e">>),
                        Lit(<<"v", "a", "l", "o", "r">>), Lit(<<"m", "o", "n", "t", "a", "n", "t", "e">>)>>),
                  Spaces0, Rep(Chr({":"} \cup Whitespace), 0, -1)>>),
            AmountToken, Empty, TRUE) >>

\* (?:\+?258)?
OptCountryCode == Opt(Cat(<<Opt(Chr({"+"})), Lit(<<"2", "5", "8">>)>>))

\* /(?:para|p\/)\s*(?:\+?258)?\s*(\d{9})/gi,
\* /(?:para|p\/)\s*(\d{12})/gi,
\* /(?:destino|para)\s*[:=]?\s*(?:\+?258)?(\d{9})/gi
RECIPIENT_PATTERNS ==
  << RegExp(Cat(<<Alt(<<Lit(<<"p", "a", "r", "a">>), Lit(<<"p", "/">>)>>), Spaces0, OptCountryCode, Spaces0>>),
            DigitsN(9), Empty, TRUE),
     RegExp(Cat(<<Alt(<<Lit(<<"p", "a", "r", "a">>), Lit(<<"p", "/">>)>>), Spaces0>>),
            DigitsN(12), Empty, TRUE),
     RegExp(Cat(<<Alt(<<Lit(<<"d", "e", "s", "t", "i", "n", "o">>), Lit(<<"p", "a", "r", "a">>)>>), Spaces0, Opt(Chr({":", "="})),
                  Spaces0, OptCountryCode>>),
            DigitsN(9), Empty, TRUE) >>

\* the null of "ExtractedCode | null"
NoCode == [code |-> NULL, method |-> "unknown", confidence |-> "low"]

\* the null of "amount: number | null" (amounts are centavos, never negative)
NoAmount == -1

detectPaymentMethod(message) ==
  LET lowerMessage == toLowerCase(message)
  IN IF includes(lowerMessage, <<"m", "-", "p", "e", "s", "a">>) \/ includes(lowerMessage, <<"m", "p", "e", "s", "a">>)
     THEN "mpesa"
     ELSE IF includes(lowerMessage, <<"e", "m", "o", "l", "a">>) \/ includes(lowerMessage, <<"e", "-", "m", "o", "l", "a">>)
     THEN "emola"
     ELSE "unknown"

\* ResolveMethod that ignores the provider the message names
ResolveMethodImplied(detectedMethod, implied) == implied

\* ResolveMethod that falls back to mpesa whatever the pattern
ResolveMethodMpesaDefault(detectedMethod, implied) ==
  IF detectedMethod # "unknown" THEN detectedMethod ELSE "mpesa"

\* detectedMethod !== 'unknown' ? detectedMethod : implied
ResolveMethod(detectedMethod, implied) ==
  IF detectedMethod # "unknown" THEN detectedMethod ELSE implied

\* /[A-Z]/.test(code) && /\d/.test(code) && !/^(PP|CI)/.test(code)
IsMpesaShaped(code) ==
  /\ \E k \in 1..Len(code) : code[k] \in UpperLetters
  /\ \E k \in 1..Len(code) : code[k] \in Digits
  /\ ~(startsWith(code, <<"P", "P">>) \/ startsWith(code, <<"C", "I">>))

RECURSIVE FilterMatches(_, _)
\* mpesaFallback.filter(...): the texts of the matches that are M-Pesa shaped
FilterMatches(s, ms) ==
  IF ms = <<>> THEN <<>>
  ELSE (IF IsMpesaShaped(MatchText(s, Head(ms))) THEN <<MatchText(s, Head(ms))>> ELSE <<>>)
       \o FilterMatches(s, Tail(ms))

\* extractTransactionCode with the Confirmado pattern tried before the eMola ones
extractTransactionCodeConfirmadoFirst(message) ==
  LET upperMessage == toUpperCase(message)
      detectedMethod == detectPaymentMethod(message)
      emolaMatchA == Search(EMOLA_PATTERN_A, upperMessage, 0)
      emolaMatchB == Search(EMOLA_PATTERN_B, upperMessage, 0)
      mpesaConfirmed == Search(MPESA_PATTERN_CONFIRMED, message, 0)
      emolaGeneric == Search(EMOLA_PATTERN_GENERIC, upperMessage, 0)
      validCodes == FilterMatches(upperMessage,
                                  MatchAll(MPESA_PATTERN_FALLBACK, upperMessage))
  IN IF mpesaConfirmed.found
     THEN [code |-> toUpperCase(Group1(message, mpesaConfirmed)),
           method |-> ResolveMethod(detectedMethod, "mpesa"), confidence |-> "high"]
     ELSE IF emolaMatchA.found
     THEN [code |-> MatchText(upperMessage, emolaMatchA),
           method |-> ResolveMethod(detectedMethod, "emola"), confidence |-> "high"]
     ELSE IF emolaMatchB.found
     THEN [code |-> MatchText(upperMessage, emolaMatchB),
           method |-> ResolveMethod(detectedMethod, "emola"), confidence |-> "high"]
     ELSE IF emolaGeneric.found
     THEN [code |-> MatchText(upperMessage, emolaGeneric),
           method |-> ResolveMethod(detectedMethod, "emola"), confidence |-> "medium"]
     ELSE IF validCodes # <<>>
     THEN [code |-> validCodes[1],
           method |-> ResolveMethod(detectedMethod, "mpesa"), confidence |-> "medium"]
     ELSE NoCode

extractTransactionCode(message) ==
  LET upperMessage == toUpperCase(message)
      detectedMethod == detectPaymentMethod(message)
      emolaMatchA == Search(EMOLA_PATTERN_A, upperMessage, 0)
      emolaMatchB == Search(EMOLA_PATTERN_B, upperMessage, 0)
      mpesaConfirmed == Search(MPESA_PATTERN_CONFIRMED, message, 0)
      emolaGeneric == Search(EMOLA_PATTERN_GENERIC, upperMessage, 0)
      validCodes == FilterMatches(upperMessage, MatchAll(MPESA_PATTERN_FALLBACK, upperMessage))
  IN IF emolaMatchA.found
     THEN [code |-> MatchText(upperMessage, emolaMatchA),
           method |-> ResolveMethod(detectedMethod, "emola"), confidence |-> "high"]
     ELSE IF emolaMatchB.found
     THEN [code |-> MatchText(upperMessage, emolaMatchB),
           method |-> ResolveMethod(detectedMethod, "emola"), confidence |-> "high"]
     ELSE IF mpesaConfirmed.found
     THEN [code |-> toUpperCase(Group1(message, mpesaConfirmed)),
           method |-> ResolveMethod(detectedMethod, "mpesa"), confidence |-> "high"]
     ELSE IF emolaGeneric.found
     THEN [code |-> MatchText(upperMessage, emolaGeneric),
           method |-> ResolveMethod(detectedMethod, "emola"), confidence |-> "medium"]
     ELSE IF validCodes # <<>>
     THEN [code |-> validCodes[1],
           method |-> ResolveMethod(detectedMethod, "mpesa"), confidence |-> "medium"]
     ELSE NoCode

DigitSeq == <<"0", "1", "2", "3", "4", "5", "6", "7", "8", "9">>

DigitVal(c) == (CHOOSE k \in 1..10 : DigitSeq[k] = c) - 1

RECURSIVE DecimalValue(_)
\* the number a string of digits denotes
DecimalValue(ds) ==
  IF ds = <<>> THEN 0
  ELSE 10 * DecimalValue(SubSeq(ds, 1, Len(ds) - 1)) + DigitVal(ds[Len(ds)])

\* parseFloat(token.replace(',', '.')) in centavos, for a token \d{1,6}(?:[.,]\d{1,2})?
ParseAmount(token) ==
  LET seps == {k \in 1..Len(token) : token[k] \in {".", ","}}
      sep == IF seps = {} THEN Len(token) + 1 ELSE CHOOSE k \in seps : TRUE
      whole == SubSeq(token, 1, sep - 1)
      frac == SubSeq(token, sep + 1, Len(token))
  IN 100 * DecimalValue(whole)
     + (IF Len(frac) = 1 THEN 10 * DecimalValue(frac) ELSE DecimalValue(frac))

\* FirstPositiveAmount without the test value > 0
FirstAmountAnyValue(s, ms) ==
  IF ms = <<>> THEN NoAmount ELSE ParseAmount(Group1(s, Head(ms)))

RECURSIVE FirstPositiveAmount(_, _)
\* for (const match of matches): the first captured value that is > 0
FirstPositiveAmount(s, ms) ==
  IF ms = <<>> THEN NoAmount
  ELSE LET value == ParseAmount(Group1(s, Head(ms)))
       IN IF value > 0 THEN value ELSE FirstPositiveAmount(s, Tail(ms))

RECURSIVE ExtractAmountFrom(_, _)
\* for (const pattern of AMOUNT_PATTERNS), from pattern k on
ExtractAmountFrom(message, k) ==
  IF k > Len(AMOUNT_PATTERNS) THEN NoAmount
  ELSE LET value == FirstPositiveAmount(message, MatchAll(AMOUNT_PATTERNS[k], message))
       IN IF value # NoAmount THEN value ELSE ExtractAmountFrom(message, k + 1)

extractAmount(message) == ExtractAmountFrom(message, 1)

\* NormalizeCaptured returning the captured digits as they are
NormalizeCapturedRaw(captured) == Filter(captured, Digits)

\* The body of extractRecipientPhone's inner loop for one captured text: strip the
\* non-digits, prefix a 9-digit number with 258, and keep the result only when it
\* is 12 characters that start with 258 (NULL: the loop goes on).
NormalizeCaptured(captured) ==
  LET stripped == Filter(captured, Digits)
      phone == IF Len(stripped) = 9 THEN <<"2", "5", "8">> \o stripped ELSE stripped
  IN IF Len(phone) = 12 /\ startsWith(phone, <<"2", "5", "8">>) THEN phone ELSE NULL

RECURSIVE FirstValidPhone(_, _)
FirstValidPhone(s, ms) ==
  IF ms = <<>> THEN NULL
  ELSE LET phone == NormalizeCaptured(Group1(s, Head(ms)))
       IN IF phone # NULL THEN phone ELSE FirstValidPhone(s, Tail(ms))

RECURSIVE ExtractRecipientFrom(_, _)
\* for (const pattern of RECIPIENT_PATTERNS), from pattern k on
ExtractRecipientFrom(message, k) ==
  IF k > Len(RECIPIENT_PATTERNS) THEN NULL
  ELSE LET phone == FirstValidPhone(message, MatchAll(RECIPIENT_PATTERNS[k], message))
       IN IF phone # NULL THEN phone ELSE ExtractRecipientFrom(message, k + 1)

extractRecipientPhone(message) == ExtractRecipientFrom(message, 1)

normalizePhone(phone) ==
  IF phone = <<>> THEN <<>>
  ELSE LET kept == Filter(phone, Digits \cup {"+"})
           cleaned == IF startsWith(kept, <<"+">>) THEN Tail(kept) ELSE kept
       IN IF Len(cleaned) = 9 THEN <<"2", "5", "8">> \o cleaned
          ELSE IF Len(cleaned) = 12 /\ startsWith(cleaned, <<"2", "5", "8">>) THEN cleaned
          ELSE IF Len(cleaned) = 11 /\ startsWith(cleaned, <<"2", "5", "8">>) THEN cleaned
          ELSE cleaned

\* preferredMethod "none" stands for an absent (undefined) argument
extractPaymentData(message, preferredMethod) ==
  LET detectedMethod == detectPaymentMethod(message)
      code == extractTransactionCode(message)
  IN [code |-> code,
      amount |-> extractAmount(message),
      phone |-> extractRecipientPhone(message),
      method |-> IF detectedMethod # "unknown" THEN detectedMethod
                 ELSE IF code # NoCode /\ code.method # "unknown" THEN code.method
                 ELSE IF preferredMethod # "none" THEN preferredMethod
                 ELSE "unknown"]

(***************************************************************************)
(* The same functions with the lastIndex of the module-level /g patterns   *)
(* made explicit: each takes the record of lastIndex values li and returns *)
(* its result together with the record it leaves behind.                   *)
(***************************************************************************)

\* RegExp.prototype.exec on a /g pattern: the result of the search that started at
\* lastIndex, and the lastIndex it leaves (the end of the match, 0 on failure)
ExecResult(m) == [match |-> m, lastIndex |-> IF m.found THEN (IF m.end = m.start THEN m.end + 1 ELSE m.end) ELSE 0]

RegExpExec(p, s, li) == ExecResult(Search(p, s, li))

RECURSIVE MatchLoop(_, _, _, _)
\* the loop of s.match(p): exec is repeated until it fails
MatchLoop(p, s, r, found) ==
  IF ~r.match.found THEN [matches |-> found, lastIndex |-> r.lastIndex]
  ELSE MatchLoop(p, s, RegExpExec(p, s, r.lastIndex), found \o <<r.match>>)

\* the result of one exec as a list of matches
ExecMatches(r) == [matches |-> IF r.match.found THEN <<r.match>> ELSE <<>>, lastIndex |-> r.lastIndex]

\* one exec from the pattern's lastIndex, as p.exec(s) or p.test(s) would do
StringMatchByExec(p, s, li) == ExecMatches(RegExpExec(p, s, li))

\* s.match(p) for a /g pattern whose lastIndex is li: lastIndex is set to 0, then
\* every match is collected
StringMatch(p, s, li) == MatchLoop(p, s, RegExpExec(p, s, 0), <<>>)

\* s.matchAll(rx) for rx = new RegExp(pattern): the iteration runs on a copy, from
\* rx.lastIndex (0 for a new RegExp), and leaves the pattern alone
StringMatchAll(p, s, li) == MatchAllFrom(p, s, li)

CodeFound(code, detectedMethod, implied, confidence, li) ==
  [result |-> [code |-> code, method |-> ResolveMethod(detectedMethod, implied), confidence |-> confidence],
   lastIndex |-> li]

\* lines 131-147: the filtered fallback codes, or null
TierFallbackCodes(message, li, validCodes) ==
  IF validCodes # <<>> THEN CodeFound(validCodes[1], detectPaymentMethod(message), "mpesa", "medium", li)
  ELSE [result |-> NoCode, lastIndex |-> li]

TierFallback(message, upperMessage, li, r) ==
  TierFallbackCodes(message, [li EXCEPT !.mpesaFallback = r.lastIndex], FilterMatches(upperMessage, r.matches))

\* lines 121-128
TierEmolaGeneric(message, upperMessage, li, r) ==
  IF r.matches # <<>>
  THEN CodeFound(MatchText(upperMessage, r.matches[1]), detectPaymentMethod(message), "emola", "medium",
                 [li EXCEPT !.emolaGeneric = r.lastIndex])
  ELSE TierFallback(message, upperMessage, [li EXCEPT !.emolaGeneric = r.lastIndex],
                    StringMatch(MPESA_PATTERN_FALLBACK, upperMessage, li.mpesaFallback))

\* lines 111-118: MPESA_PATTERN_CONFIRMED has no g flag, its lastIndex is not used
TierConfirmed(message, upperMessage, li, m) ==
  IF m.found
  THEN CodeFound(toUpperCase(Group1(message, m)), detectPaymentMethod(message), "mpesa", "high", li)
  ELSE TierEmolaGeneric(message, upperMessage, li,
                        StringMatch(EMOLA_PATTERN_GENERIC, upperMessage, li.emolaGeneric))

\* lines 101-108
TierEmolaB(message, upperMessage, li, r) ==
  IF r.matches # <<>>
  THEN CodeFound(MatchText(upperMessage, r.matches[1]), detectPaymentMethod(message), "emola", "high",
                 [li EXCEPT !.emolaB = r.lastIndex])
  ELSE TierConfirmed(message, upperMessage, [li EXCEPT !.emolaB = r.lastIndex],
                     Search(MPESA_PATTERN_CONFIRMED, message, 0))

\* lines 92-99
TierEmolaA(message, upperMessage, li, r) ==
  IF r.matches # <<>>
  THEN CodeFound(MatchText(upperMessage, r.matches[1]), detectPaymentMethod(message), "emola", "high",
                 [li EXCEPT !.emolaA = r.lastIndex])
  ELSE TierEmolaB(message, upperMessage, [li EXCEPT !.emolaA = r.lastIndex],
                  StringMatch(EMOLA_PATTERN_B, upperMessage, li.emolaB))

extractTransactionCodeWith(message, li) ==
  TierEmolaA(message, toUpperCase(message), li,
             StringMatch(EMOLA_PATTERN_A, toUpperCase(message), li.emolaA))

RECURSIVE ExtractAmountWith(_, _, _)
\* the value of pattern k, or the turn of pattern k + 1
AmountOfPattern(message, k, li, value) ==
  IF value # NoAmount THEN [result |-> value, lastIndex |-> li]
  ELSE ExtractAmountWith(message, k + 1, li)

\* extractAmount from pattern k on: pattern.lastIndex = 0, then matchAll on a copy
ExtractAmountWith(message, k, li) ==
  IF k > Len(AMOUNT_PATTERNS) THEN [result |-> NoAmount, lastIndex |-> li]
  ELSE AmountOfPattern(message, k, [li EXCEPT !.amount[k] = 0],
                       FirstPositiveAmount(message, StringMatchAll(AMOUNT_PATTERNS[k], message, 0)))

RECURSIVE ExtractRecipientWith(_, _, _)
PhoneOfPattern(message, k, li, phone) ==
  IF phone # NULL THEN [result |-> phone, lastIndex |-> li]
  ELSE ExtractRecipientWith(message, k + 1, li)

\* extractRecipientPhone from pattern k on
ExtractRecipientWith(message, k, li) ==
  IF k > Len(RECIPIENT_PATTERNS) THEN [result |-> NULL, lastIndex |-> li]
  ELSE PhoneOfPattern(message, k, [li EXCEPT !.recipient[k] = 0],
                      FirstValidPhone(message, StringMatchAll(RECIPIENT_PATTERNS[k], message, 0)))

\* lines 243-250: the method of the result
MethodOfData(detectedMethod, code, preferredMethod) ==
  IF detectedMethod # "unknown" THEN detectedMethod
  ELSE IF code # NoCode /\ code.method # "unknown" THEN code.method
  ELSE IF preferredMethod # "none" THEN preferredMethod
  ELSE "unknown"

DataAfterPhone(message, preferredMethod, code, amount, ph) ==
  [result |-> [code |-> code, amount |-> amount, phone |-> ph.result,
               method |-> MethodOfData(detectPaymentMethod(message), code, preferredMethod)],
   lastIndex |-> ph.lastIndex]

DataAfterAmount(message, preferredMethod, code, a) ==
  DataAfterPhone(message, preferredMethod, code, a.result, ExtractRecipientWith(message, 1, a.lastIndex))

DataAfterCode(message, preferredMethod, c) ==
  DataAfterAmount(message, preferredMethod, c.result, ExtractAmountWith(message, 1, c.lastIndex))

extractPaymentDataWith(message, preferredMethod, li) ==
  DataAfterCode(message, preferredMethod, extractTransactionCodeWith(message, li))

\* ±0.50 MZN, in centavos
AMOUNT_TOLERANCE == 50

\* the five messages of validatePaymentData; the amount-mismatch message carries the
\* two amounts, which toFixed(2) prints with their two decimals (the centavos)
MsgCodeNotDetected == <<"Codigo de transacao nao detectado. Cole a mensagem completa.">>

MsgAmountNotDetected == <<"Valor nao detectado na mensagem.">>

MsgRecipientNotDetected == <<"Numero do destinatario nao detectado.">>

MsgAmountMismatch(expectedAmount, amount) ==
  <<"Valor nao corresponde. Esperado / Detectado:", expectedAmount, amount>>

MsgRecipientMismatch == <<"Numero do destinatario nao corresponde.">>

Abs(n) == IF n < 0 THEN 0 - n ELSE n

\* AmountMatches with <= in place of <
AmountMatchesInclusive(hasAmount, amount, expectedAmount) ==
  hasAmount /\ Abs(amount - expectedAmount) <= AMOUNT_TOLERANCE

\* hasAmount && Math.abs((extracted.amount || 0) - expectedAmount) < 0.50
AmountMatches(hasAmount, amount, expectedAmount) ==
  hasAmount /\ Abs(amount - expectedAmount) < AMOUNT_TOLERANCE

\* RecipientMatches without the comparison with the expected number
RecipientMatchesAnyNumber(hasRecipient, phone, normalizedExpectedPhone) == hasRecipient

\* hasRecipient && extracted.phone === normalizedExpectedPhone
RecipientMatches(hasRecipient, phone, normalizedExpectedPhone) ==
  hasRecipient /\ phone = normalizedExpectedPhone

\* ErrorMessageOf with the amount tested before the code
ErrorMessageOfAmountFirst(hasCode, hasAmount, hasRecipient, amountMatches, recipientMatches, expectedAmount, amount) ==
  IF ~hasAmount THEN MsgAmountNotDetected
  ELSE IF ~hasCode THEN MsgCodeNotDetected
  ELSE IF ~hasRecipient THEN MsgRecipientNotDetected
  ELSE IF ~amountMatches THEN MsgAmountMismatch(expectedAmount, amount)
  ELSE IF ~recipientMatches THEN MsgRecipientMismatch
  ELSE NULL

\* the if / else if chain that picks the message
ErrorMessageOf(hasCode, hasAmount, hasRecipient, amountMatches, recipientMatches, expectedAmount, amount) ==
  IF ~hasCode THEN MsgCodeNotDetected
  ELSE IF ~hasAmount THEN MsgAmountNotDetected
  ELSE IF ~hasRecipient THEN MsgRecipientNotDetected
  ELSE IF ~amountMatches THEN MsgAmountMismatch(expectedAmount, amount)
  ELSE IF ~recipientMatches THEN MsgRecipientMismatch
  ELSE NULL

\* IsReadyOf from the two comparisons only
IsReadyOfMatchesOnly(hasCode, hasAmount, hasRecipient, amountMatches, recipientMatches) == amountMatches /\ recipientMatches

\* IsReadyOf without the recipient comparison
IsReadyOfNoRecipientMatch(hasCode, hasAmount, hasRecipient, amountMatches, recipientMatches) ==
  hasCode /\ hasAmount /\ hasRecipient /\ amountMatches

IsReadyOf(hasCode, hasAmount, hasRecipient, amountMatches, recipientMatches) ==
  hasCode /\ hasAmount /\ hasRecipient /\ amountMatches /\ recipientMatches

validatePaymentData(extracted, expectedAmount, expectedRecipientPhone) ==
  LET normalizedExpectedPhone == normalizePhone(expectedRecipientPhone)
      hasCode == extracted.code # NoCode
      hasAmount == extracted.amount # NoAmount
      hasRecipient == extracted.phone # NULL
      amountMatches == AmountMatches(hasAmount, extracted.amount, expectedAmount)
      recipientMatches == RecipientMatches(hasRecipient, extracted.phone,
                                           normalizedExpectedPhone)
  IN [isReady |-> IsReadyOf(hasCode, hasAmount, hasRecipient, amountMatches,
                            recipientMatches),
      hasCode |-> hasCode,
      hasAmount |-> hasAmount,
      hasRecipient |-> hasRecipient,
      amountMatches |-> amountMatches,
      recipientMatches |-> recipientMatches,
      errorMessage |-> ErrorMessageOf(hasCode, hasAmount, hasRecipient, amountMatches,
                                      recipientMatches, expectedAmount, extracted.amount)]

\* /^[A-Z0-9]{10,12}$/
MpesaCodeShape == Rep(Chr(AlphaNum), 10, 12)

\* /^(PP|CI)[A-Z0-9.]{6,}$/
EmolaGenericShape ==
  Cat(<<Alt(<<Lit(<<"P", "P">>), Lit(<<"C", "I">>)>>), Rep(Chr(AlphaNum \cup {"."}), 6, -1)>>)

\* validateManualCode without the test of the length
validateManualCodeAnyLength(code) ==
  LET upperCode == trim(toUpperCase(code))
  IN IF upperCode = <<>>
     THEN [isValid |-> FALSE, method |-> "null"]
     ELSE IF TestWhole(EmolaCodeShape(<<"P", "P">>), upperCode)
     THEN [isValid |-> TRUE, method |-> "emola"]
     ELSE IF TestWhole(EmolaCodeShape(<<"C", "I">>), upperCode)
     THEN [isValid |-> TRUE, method |-> "emola"]
     ELSE IF TestWhole(EmolaGenericShape, upperCode)
     THEN [isValid |-> TRUE, method |-> "emola"]
     ELSE IF /\ TestWhole(MpesaCodeShape, upperCode)
             /\ \E k \in 1..Len(upperCode) : upperCode[k] \in UpperLetters
             /\ \E k \in 1..Len(upperCode) : upperCode[k] \in Digits
             /\ ~(startsWith(upperCode, <<"P", "P">>) \/ startsWith(upperCode, <<"C", "I">>))
     THEN [isValid |-> TRUE, method |-> "mpesa"]
     ELSE [isValid |-> FALSE, method |-> "null"]

\* method "null" stands for null
validateManualCode(code) ==
  LET upperCode == trim(toUpperCase(code))
  IN IF upperCode = <<>> \/ Len(upperCode) < 10
     THEN [isValid |-> FALSE, method |-> "null"]
     ELSE IF TestWhole(EmolaCodeShape(<<"P", "P">>), upperCode)
     THEN [isValid |-> TRUE, method |-> "emola"]
     ELSE IF TestWhole(EmolaCodeShape(<<"C", "I">>), upperCode)
     THEN [isValid |-> TRUE, method |-> "emola"]
     ELSE IF TestWhole(EmolaGenericShape, upperCode)
     THEN [isValid |-> TRUE, method |-> "emola"]
     ELSE IF /\ TestWhole(MpesaCodeShape, upperCode)
             /\ \E k \in 1..Len(upperCode) : upperCode[k] \in UpperLetters
             /\ \E k \in 1..Len(upperCode) : upperCode[k] \in Digits
             /\ ~(startsWith(upperCode, <<"P", "P">>) \/ startsWith(upperCode, <<"C", "I">>))
     THEN [isValid |-> TRUE, method |-> "mpesa"]
     ELSE [isValid |-> FALSE, method |-> "null"]

(***************************************************************************)
(* What the parent configures and what the client can enter                *)
(***************************************************************************)

\* the business's numbers, as configured (raw, not normalized)
MpesaNumber == <<"8", "4", " ", "1", "2", "3", " ", "4", "5", "6", "7">>

EmolaNumber == <<"+", "2", "5", "8", "8", "4", "9", "9", "9", "9", "9", "9", "9">>

\* the service price, 100.00 MZN
ServicePrice == 10000

\* the business's WhatsApp number, as configured
WhatsappNumber == <<"8", "4", " ", "1", "2", "3", " ", "4", "5", "6", "7">>

\* an appointment that was not created has no payment to confirm, so the WhatsApp
\* number matters (blank or not) only when there is one
PropsChoices ==
  {[paymentMethods |-> pm, mpesaNumber |-> MpesaNumber, emolaNumber |-> EmolaNumber,
    appointmentId |-> id, servicePrice |-> ServicePrice, whatsappNumber |-> w] :
     pm \in {<<"mpesa">>, <<"mpesa", "emola">>},
     id \in {<<"a", "1">>}, w \in {<<" ", " ">>, WhatsappNumber}}
  \cup
  {[paymentMethods |-> pm, mpesaNumber |-> MpesaNumber, emolaNumber |-> EmolaNumber,
    appointmentId |-> NULL, servicePrice |-> ServicePrice, whatsappNumber |-> WhatsappNumber] :
     pm \in {<<"mpesa">>, <<"mpesa", "emola">>}}

\* what the client may paste or type into the textarea
MessageInputs ==
  {<<>>,
   <<"C", "o", "n", "f", "i", "r", "m", "a", "d", "o", " ", "D", "A", "T", "2", "I", "V", "Y", "A", "7", "R", "0", " ", "1", "0", "0", ".", "0", "0", "M", "T", " ", "p", "a", "r", "a", " ", "8", "4", "1", "2", "3", "4", "5", "6", "7">>,
   <<"P", "P", "2", "6", "0", "1", "1", "6", ".", "2", "0", "2", "6", ".", "W", "2", "2", "1", "5", "6", " ", "1", "0", "0", ".", "4", "0", "M", "T", " ", "p", "/", " ", "2", "5", "8", "8", "4", "9", "9", "9", "9", "9", "9", "9">>,
   <<"D", "A", "T", "2", "I", "V", "Y", "A", "7", "R", "0", " ", "1", "0", "0", ".", "5", "0", "M", "T", " ", "p", "a", "r", "a", " ", "8", "4", "1", "2", "3", "4", "5", "6", "7">>,
   <<"1", "0", "0", "M", "T", " ", "p", "a", "r", "a", " ", "8", "4", "1", "2", "3", "4", "5", "6", "7">>}

\* what the client may type into the transaction-code field
ManualCodeInputs ==
  {<<>>, <<" ", " ", " ">>, <<"a", "b", "1", "2">>, <<"d", "a", "t", "2", "i", "v", "y", "a", "7", "r", "0">>, <<"P", "P", "2", "6", "0", "1", "1", "6", ".", "2", "0", "2", "6", ".", "W", "2", "2", "1", "5", "6">>}

(***************************************************************************)
(* src/src/components/booking/PaymentStep.tsx                              *)
(*                                                                         *)
(* The component's state, the requests it has sent that have not been      *)
(* handled yet, and the last call of a library function (call), which the  *)
(* specification of the library functions uses.                            *)
(***************************************************************************)
VARIABLES
  props,                \* PaymentStepProps: what the parent passes in
  selectedMethod,       \* "mpesa", "emola" or "none" (null)
  confirmationMessage,  \* the textarea
  manualCode,           \* the transaction-code field
  extractedData,        \* <<>> (null) or <<ExtractedPaymentData>>
  validation,           \* <<>> (null) or <<ValidationResult>>
  isManualEntry,
  isPaymentConfirmed,
  isValidating,
  validationError,      \* NULL or the error text
  inflight,             \* validate_and_confirm_payment calls awaiting their continuation
  whatsappOpened,       \* openWhatsApp has returned true
  completed,            \* onComplete has been called
  call,                 \* the last library call: function, arguments, result
  lastIndex,            \* the lastIndex of each module-level /g pattern
  db                    \* the database: tables and the transactions that are open

uiVars == <<props, selectedMethod, confirmationMessage, manualCode, extractedData,
            validation, isManualEntry, isPaymentConfirmed, isValidating,
            validationError, inflight, whatsappOpened, completed>>

vars == <<props, selectedMethod, confirmationMessage, manualCode, extractedData,
          validation, isManualEntry, isPaymentConfirmed, isValidating,
          validationError, inflight, whatsappOpened, completed, call, lastIndex, db>>

\* the page and the library functions leave the database alone
NoDb == <<>>

\* a RegExp literal is created with lastIndex 0
ZeroLastIndex ==
  [emolaA |-> 0, emolaB |-> 0, emolaGeneric |-> 0, mpesaFallback |-> 0,
   amount |-> <<0, 0>>, recipient |-> <<0, 0, 0>>]

\* extractPaymentData, tabulated once over the messages the client can enter and
\* the methods that can be selected
ExtractionTable ==
  {<<message, method, extractPaymentData(message, method)>> :
     message \in MessageInputs, method \in {"none", "mpesa", "emola"}}

extractPaymentDataOf(message, preferredMethod) ==
  (CHOOSE e \in ExtractionTable : e[1] = message /\ e[2] = preferredMethod)[3]

\* the state the effects read and write
View == [selectedMethod |-> selectedMethod,
         confirmationMessage |-> confirmationMessage,
         manualCode |-> manualCode,
         extractedData |-> extractedData,
         validation |-> validation,
         isManualEntry |-> isManualEntry]

getPhoneForMethod(method) ==
  IF method = "mpesa" /\ props.mpesaNumber # NULL /\ props.mpesaNumber # <<>>
  THEN props.mpesaNumber
  ELSE IF method = "emola" /\ props.emolaNumber # NULL /\ props.emolaNumber # <<>>
  THEN props.emolaNumber
  ELSE <<>>

\* const expectedRecipientPhone = selectedMethod ? normalizePhone(...) : ''
expectedRecipientPhone(method) ==
  IF method # "none" THEN normalizePhone(getPhoneForMethod(method)) ELSE <<>>

\* the first effect's setExtractedData, setManualCode and setValidation
SetExtracted(u, data, expected) ==
  [u EXCEPT
     !.extractedData = <<data>>,
     !.manualCode = IF data.code # NoCode /\ ~u.isManualEntry
                    THEN data.code.code ELSE @,
     !.validation = IF expected # <<>>
                    THEN <<validatePaymentData(data, props.servicePrice, expected)>>
                    ELSE @]

\* The first effect ("extract and validate when message changes"): the state after
\* its setState calls, run in the render whose state is u.
ExtractEffect(u) ==
  IF trim(u.confirmationMessage) # <<>>
  THEN SetExtracted(u, extractPaymentDataOf(u.confirmationMessage, u.selectedMethod),
                    expectedRecipientPhone(u.selectedMethod))
  ELSE [u EXCEPT
          !.extractedData = <<>>,
          !.validation = <<>>,
          !.manualCode = IF ~u.isManualEntry THEN <<>> ELSE @]

\* The second effect ("re-validate when manual code changes"), run in the render
\* whose state is u; its setValidation is applied to the pending state cur.
RevalidateEffect(u, cur) ==
  IF u.isManualEntry /\ trim(u.manualCode) # <<>> /\ u.extractedData # <<>>
  THEN LET updatedData ==
             [u.extractedData[1] EXCEPT
                !.code = IF validateManualCode(u.manualCode).isValid
                         THEN [code |-> trim(toUpperCase(u.manualCode)),
                               method |-> u.extractedData[1].method,
                               confidence |-> "high"]
                         ELSE NoCode]
       IN [cur EXCEPT
             !.validation = <<validatePaymentData(updatedData, props.servicePrice,
                                                  expectedRecipientPhone(u.selectedMethod))>>]
  ELSE cur

\* a dependency of the first effect differs between two renders
ExtractDepsChanged(a, b) ==
  \/ a.confirmationMessage # b.confirmationMessage
  \/ a.selectedMethod # b.selectedMethod
  \/ expectedRecipientPhone(a.selectedMethod) # expectedRecipientPhone(b.selectedMethod)
  \/ a.isManualEntry # b.isManualEntry

\* a dependency of the second effect differs between two renders; extractedData is
\* compared by identity, and newData says that it was replaced
RevalidateDepsChanged(a, b, newData) ==
  \/ a.manualCode # b.manualCode
  \/ a.isManualEntry # b.isManualEntry
  \/ newData
  \/ a.selectedMethod # b.selectedMethod
  \/ expectedRecipientPhone(a.selectedMethod) # expectedRecipientPhone(b.selectedMethod)

\* the last render of a commit: the second effect runs once more when the first
\* replaced extractedData or filled in the code
CommitRevalidateAgain(next, afterBoth, newData) ==
  IF RevalidateDepsChanged(next, afterBoth, newData)
  THEN RevalidateEffect(afterBoth, afterBoth) ELSE afterBoth

\* the second effect of the render of next, when its dependencies changed
CommitRevalidate(prev, next, runExtract, afterExtract) ==
  CommitRevalidateAgain(
    next,
    IF RevalidateDepsChanged(prev, next, FALSE)
    THEN RevalidateEffect(next, afterExtract) ELSE afterExtract,
    runExtract /\ (afterExtract.extractedData # <<>> \/ next.extractedData # <<>>))

\* the first effect of the render of next, when its dependencies changed
CommitExtract(prev, next, runExtract) ==
  CommitRevalidate(prev, next, runExtract,
                   IF runExtract THEN ExtractEffect(next) ELSE next)

\* React's commit after an event handler took the state from prev to next: the
\* effects whose dependencies changed run, in order, in the render of next; the
\* state they set renders again, and the second effect runs once more when the
\* first replaced extractedData or filled in the code.  The result is the state
\* the component settles in.
Commit(prev, next) == CommitExtract(prev, next, ExtractDepsChanged(prev, next))

\* the component's state becomes the settled view
Settle(u) ==
  /\ selectedMethod' = u.selectedMethod
  /\ confirmationMessage' = u.confirmationMessage
  /\ manualCode' = u.manualCode
  /\ extractedData' = u.extractedData
  /\ validation' = u.validation
  /\ isManualEntry' = u.isManualEntry

\* the branch of the JSX that shows the inputs and the confirm button
InputsRendered == ~isPaymentConfirmed /\ selectedMethod # "none"

HasMethod(m) == \E k \in 1..Len(props.paymentMethods) : props.paymentMethods[k] = m

\* one of the two method buttons: onClick={() => setSelectedMethod(m)}
SelectMethod(m) ==
  /\ ~isPaymentConfirmed
  /\ Len(props.paymentMethods) > 1 /\ selectedMethod = "none"
  /\ HasMethod(m) /\ getPhoneForMethod(m) # <<>>
  /\ Settle(Commit(View, [View EXCEPT !.selectedMethod = m]))
  /\ UNCHANGED <<props, isPaymentConfirmed, isValidating, validationError, inflight, call, lastIndex, whatsappOpened, completed, db>>

\* the "Trocar" button: onClick={() => setSelectedMethod(null)}
ChangeMethod ==
  /\ InputsRendered
  /\ Len(props.paymentMethods) > 1
  /\ Settle(Commit(View, [View EXCEPT !.selectedMethod = "none"]))
  /\ UNCHANGED <<props, isPaymentConfirmed, isValidating, validationError, inflight, call, lastIndex, whatsappOpened, completed, db>>

\* the textarea's onChange
ChangeMessage(value) ==
  /\ InputsRendered
  /\ value # confirmationMessage
  /\ Settle(Commit(View, [View EXCEPT !.confirmationMessage = value,
                                      !.isManualEntry = FALSE]))
  /\ validationError' = NULL
  /\ UNCHANGED <<props, isPaymentConfirmed, isValidating, inflight, call, lastIndex, whatsappOpened, completed, db>>

handleManualCodeChange(value) ==
  /\ InputsRendered
  /\ value # manualCode
  /\ Settle(Commit(View, [View EXCEPT !.manualCode = toUpperCase(value),
                                      !.isManualEntry = TRUE]))
  /\ validationError' = NULL
  /\ UNCHANGED <<props, isPaymentConfirmed, isValidating, inflight, call, lastIndex, whatsappOpened, completed, db>>

\* validation?.isReady
VerdictReady == validation # <<>> /\ validation[1].isReady

\* const canConfirmPayment = validation?.isReady === true && appointmentId !== null
canConfirmPayment == VerdictReady /\ props.appointmentId # NULL

\* the confirm button's disabled attribute
ConfirmDisabled == ~canConfirmPayment \/ isValidating

\* ConfirmGuard without the test of the verdict
ConfirmGuardNoVerdict ==
  /\ props.appointmentId # NULL /\ props.appointmentId # <<>>
  /\ ~isValidating

\* ConfirmGuard without the test of isValidating
ConfirmGuardNoInProgress ==
  /\ VerdictReady
  /\ props.appointmentId # NULL /\ props.appointmentId # <<>>

\* handleConfirmPayment's early return:
\* if (!validation?.isReady || !appointmentId || isValidating) return
ConfirmGuard ==
  /\ VerdictReady
  /\ props.appointmentId # NULL /\ props.appointmentId # <<>>
  /\ ~isValidating

\* the arguments of supabase.rpc('validate_and_confirm_payment', ...)
ConfirmRequest ==
  [p_appointment_id |-> props.appointmentId,
   p_payment_method |-> IF extractedData # <<>> THEN extractedData[1].method
                        ELSE IF selectedMethod # "none" THEN selectedMethod
                        ELSE "unknown",
   p_phone_expected |-> expectedRecipientPhone(selectedMethod),
   p_amount_expected |-> props.servicePrice,
   p_confirmation_text |-> confirmationMessage,
   p_transaction_code |-> toUpperCase(trim(manualCode)),
   p_amount_detected |-> IF extractedData # <<>> THEN extractedData[1].amount ELSE NoAmount,
   p_phone_detected |-> IF extractedData # <<>> THEN extractedData[1].phone ELSE NULL]

\* handleConfirmPayment up to its await: a click on the confirm button.  The
\* button's disabled attribute adds nothing to the handler's own early return
\* (ConfirmGuard implies ~ConfirmDisabled), which is the guard here.
ClickConfirm ==
  /\ InputsRendered
  /\ ConfirmGuard
  /\ isValidating' = TRUE
  /\ validationError' = NULL
  /\ inflight' = Append(inflight, [request |-> ConfirmRequest, response |-> <<>>])
  /\ UNCHANGED <<props, selectedMethod, confirmationMessage, manualCode, extractedData,
                 validation, isManualEntry, isPaymentConfirmed, call, lastIndex, whatsappOpened, completed, db>>

\* What the await can produce: the call throws, or resolves to {data, error}
\* with a transport error, or with the server's {success, error?, code?}.
\* error "" stands for an absent error text.
Responses ==
  {[kind |-> "throw", success |-> FALSE, code |-> "", error |-> ""],
   [kind |-> "error", success |-> FALSE, code |-> "", error |-> ""],
   [kind |-> "data", success |-> TRUE, code |-> "", error |-> ""]}
  \cup {[kind |-> "data", success |-> FALSE, code |-> c, error |-> e] :
          c \in {"", "CODE_REUSED", "ALREADY_CONFIRMED", "VALIDATION_FAILED", "RATE_LIMITED"},
          e \in {"", "server text"}}

\* the server (or the network) settles call k
ServerRespond(k, response) ==
  /\ k \in 1..Len(inflight)
  /\ inflight[k].response = <<>>
  /\ inflight' = [inflight EXCEPT ![k].response = <<response>>]
  /\ UNCHANGED <<props, selectedMethod, confirmationMessage, manualCode, extractedData,
                 validation, isManualEntry, isPaymentConfirmed, isValidating,
                 validationError, call, lastIndex, whatsappOpened, completed, db>>

ErrTransport == <<"Erro ao validar pagamento. Tente novamente.">>

ErrUnexpected == <<"Erro inesperado. Tente novamente.">>

ErrCodeReused == <<"Este codigo de transacao ja foi utilizado. Use um novo pagamento.">>

ErrAlreadyConfirmed == <<"Este agendamento ja possui um pagamento confirmado.">>

ErrValidationFailed == <<"Validacao falhou. Verifique os dados.">>

ErrGeneric == <<"Erro de validacao">>

\* RejectionMessage with the server's text ahead of the messages of the codes
RejectionMessageServerTextFirst(result) ==
  IF result.error # "" THEN <<result.error>>
  ELSE IF result.code = "CODE_REUSED" THEN ErrCodeReused
  ELSE IF result.code = "ALREADY_CONFIRMED" THEN ErrAlreadyConfirmed
  ELSE IF result.code = "VALIDATION_FAILED" THEN ErrValidationFailed
  ELSE ErrGeneric

\* errorMessages[result.code || ''] || result.error || 'Erro de validação'
RejectionMessage(result) ==
  IF result.code = "CODE_REUSED" THEN ErrCodeReused
  ELSE IF result.code = "ALREADY_CONFIRMED" THEN ErrAlreadyConfirmed
  ELSE IF result.code = "VALIDATION_FAILED"
  THEN (IF result.error # "" THEN <<result.error>> ELSE ErrValidationFailed)
  ELSE IF result.error # "" THEN <<result.error>>
  ELSE ErrGeneric

\* PaymentAccepted for every call that did not throw
PaymentAcceptedUnlessThrown(result) == result.kind # "throw"

\* PaymentAccepted without the test of result.success
PaymentAcceptedAnyData(result) == result.kind = "data"

\* the call neither threw nor returned an error, and the server said success:
\* the point at which handleConfirmPayment calls setIsPaymentConfirmed(true)
PaymentAccepted(result) == result.kind = "data" /\ result.success

RemoveAt(q, k) == SubSeq(q, 1, k - 1) \o SubSeq(q, k + 1, Len(q))

\* handleConfirmPayment after its await, for call k: the catch, the error branch,
\* the rejection branch or the acceptance, and the finally
ReceiveResponse(k) ==
  /\ k \in 1..Len(inflight)
  /\ inflight[k].response # <<>>
  /\ LET result == inflight[k].response[1]
     IN /\ validationError' =
             IF result.kind = "throw" THEN ErrUnexpected
             ELSE IF result.kind = "error" THEN ErrTransport
             ELSE IF ~result.success THEN RejectionMessage(result)
             ELSE validationError
        /\ isPaymentConfirmed' = IF PaymentAccepted(result) THEN TRUE
                                 ELSE isPaymentConfirmed
  /\ isValidating' = FALSE
  /\ inflight' = RemoveAt(inflight, k)
  /\ UNCHANGED <<props, selectedMethod, confirmationMessage, manualCode, extractedData,
                 validation, isManualEntry, call, lastIndex, whatsappOpened, completed, db>>

\* handleSendWhatsApp goes on to onComplete without looking at what openWhatsApp
\* returned
SendCompletesAlways(opened) == TRUE

\* if (!opened) { toast; return }  onComplete()
SendCompletes(opened) == opened

\* handleSendWhatsApp: a click on the button of the confirmed branch, the only one
\* that branch renders.  opened is what openWhatsApp returned.
handleSendWhatsApp(opened) ==
  /\ isPaymentConfirmed
  /\ IF trim(props.whatsappNumber) = <<>>
     THEN UNCHANGED <<whatsappOpened, completed>>
     ELSE /\ whatsappOpened' = (whatsappOpened \/ opened)
          /\ completed' = (completed \/ SendCompletes(opened))
  /\ UNCHANGED <<props, selectedMethod, confirmationMessage, manualCode, extractedData,
                 validation, isManualEntry, isPaymentConfirmed, isValidating,
                 validationError, inflight, call, lastIndex, db>>

(***************************************************************************)
(* The payment step: inputs, initial state, specification                  *)
(***************************************************************************)

NoCall == [fn |-> "none"]

Init ==
  /\ props \in PropsChoices
  /\ selectedMethod = (IF Len(props.paymentMethods) = 1 THEN props.paymentMethods[1]
                       ELSE "none")
  /\ confirmationMessage = <<>>
  /\ manualCode = <<>>
  /\ extractedData = <<>>
  /\ validation = <<>>
  /\ isManualEntry = FALSE
  /\ isPaymentConfirmed = FALSE
  /\ isValidating = FALSE
  /\ validationError = NULL
  /\ inflight = <<>>
  /\ whatsappOpened = FALSE
  /\ completed = FALSE
  /\ db = NoDb
  /\ call = NoCall
  /\ lastIndex = ZeroLastIndex

Next ==
  \/ \E m \in {"mpesa", "emola"} : SelectMethod(m)
  \/ ChangeMethod
  \/ \E value \in MessageInputs : ChangeMessage(value)
  \/ \E value \in ManualCodeInputs : handleManualCodeChange(value)
  \/ ClickConfirm
  \/ \E k \in 1..Len(inflight) : \E response \in Responses : ServerRespond(k, response)
  \/ \E k \in 1..Len(inflight) : ReceiveResponse(k)
  \/ \E opened \in BOOLEAN : handleSendWhatsApp(opened)

Spec == Init /\ [][Next]_vars

\* Every call settles (the promise of supabase.rpc resolves or rejects) and the
\* continuation of a settled await is run by the event loop.
SpecFair ==
  /\ Spec
  /\ WF_vars(\E k \in 1..Len(inflight) : \E response \in Responses : ServerRespond(k, response))
  /\ WF_vars(\E k \in 1..Len(inflight) : ReceiveResponse(k))

(***************************************************************************)
(* The library functions on their own: the initial state draws a call and  *)
(* its arguments, an action applies the function.  returned and extracted  *)
(* are <<>> until the function has returned, then <<its result>>.          *)
(***************************************************************************)

\* how far from the expected amount the detected amounts range, in centavos
MaxAmountDelta == 52

\* the longest run of local digits in a raw phone number
MaxLocalDigits == 12

\* the longest run of digits after the recipient keyword of a message
MaxRunDigits == 13

DigitStream == <<"8", "4", "1", "2", "3", "4", "5", "6", "7", "8", "9", "0", "1", "2", "3", "4", "5", "6", "7">>

LocalDigits(n) == SubSeq(DigitStream, 1, n)

\* s with sep inserted after its second character
Separated(s, sep) ==
  IF Len(s) < 2 THEN s \o sep ELSE SubSeq(s, 1, 2) \o sep \o SubSeq(s, 3, Len(s))

\* raw phone numbers: an optional prefix, up to MaxLocalDigits digits, a separator
PhoneInputs ==
  {pre \o Separated(LocalDigits(n), sep) :
     pre \in {<<>>, <<"+">>, <<"2", "5", "8">>, <<"+", "2", "5", "8">>, <<"+", "2", "5", "8", " ">>, <<"2", "5", "9">>},
     n \in 0..MaxLocalDigits,
     sep \in {<<>>, <<" ">>, <<"+">>, <<"a">>}}

\* the business's number as the validator may receive it
ExpectedRecipientInputs ==
  {<<>>, <<"8", "4", "1", "2", "3", "4", "5", "6", "7">>, <<"2", "5", "8", "8", "4", "1", "2", "3", "4", "5", "6", "7">>, <<"+", "2", "5", "8", " ", "8", "4", " ", "1", "2", "3", " ", "4", "5", "6", "7">>, <<"8", "4", "9", "9", "9", "9", "9", "9", "9">>,
   <<"2", "5", "8", "8", "4", "9", "9", "9", "9", "9", "9", "9">>, <<"8", "4", "+", "1", "2", "3", "4", "5", "6", "7">>, <<"2", "5", "9", "8", "4", "1", "2", "3", "4", "5", "6", "7">>, <<"2", "5", "8", "8", "4", "1", "2", "3", "4", "5", "6">>}

SomeCode == [code |-> <<"D", "A", "T", "2", "I", "V", "Y", "A", "7", "R", "0">>, method |-> "mpesa", confidence |-> "high"]

\* ExtractedPaymentData values, whether or not an extraction can produce them
ExtractedInputs ==
  {[code |-> c, amount |-> a, phone |-> ph, method |-> "mpesa"] :
     c \in {NoCode, SomeCode},
     a \in {NoAmount} \cup {ServicePrice + d : d \in (0 - MaxAmountDelta)..MaxAmountDelta},
     ph \in {NULL, <<"2", "5", "8", "8", "4", "1", "2", "3", "4", "5", "6", "7">>, <<"2", "5", "8", "8", "4", "9", "9", "9", "9", "9", "9", "9">>}}

\* confirmation messages: a code part, an amount part, a recipient part
PaymentMessages ==
  {c \o a \o r :
     c \in {<<>>, <<"C", "o", "n", "f", "i", "r", "m", "a", "d", "o", " ", "D", "A", "T", "2", "I", "V", "Y", "A", "7", "R", "0", " ">>, <<"P", "P", "2", "6", "0", "1", "1", "6", ".", "2", "0", "2", "6", ".", "W", "2", "2", "1", "5", "6", " ">>},
     a \in {<<>>, <<"1", "0", "0", ".", "0", "0", "M", "T", " ">>, <<"1", "0", "0", ",", "4", "9", " ", "M", "T", " ">>, <<"v", "a", "l", "o", "r", ":", " ", "1", "0", "0", ".", "5", "1", " ">>},
     r \in {<<>>, <<"p", "a", "r", "a", " ", "2", "5", "8", "8", "4", "1", "2", "3", "4", "5", "6", "7">>, <<"p", "/", " ", "8", "4", "9", "9", "9", "9", "9", "9", "9">>, <<"d", "e", "s", "t", "i", "n", "o", ":", " ", "+", "2", "5", "8", "8", "4", "1", "2", "3", "4", "5", "6", "7">>,
            <<"p", "a", "r", "a", " ", "8", "4", "1", "2", "3", "4", "5", "6">>}}

\* messages about a recipient: keyword, separator, country code, a run of digits
RecipientMessages ==
  {pre \o kw \o sep \o cc \o LocalDigits(n) :
     pre \in {<<>>, <<"p", "a", "r", "a", " ", "1", "2", " ">>},
     kw \in {<<"p", "a", "r", "a">>, <<"P", "a", "r", "a">>, <<"P", "/">>, <<"d", "e", "s", "t", "i", "n", "o">>},
     sep \in {<<>>, <<" ">>, <<":", " ">>, <<"=">>},
     cc \in {<<>>, <<"2", "5", "8">>, <<"+", "2", "5", "8">>, <<"+", "2", "5", "8", " ">>},
     n \in 0..MaxRunDigits}

\* words that name a provider, and fragments that the code patterns match: eMola
\* codes of form A and B (one in lower case), a marked M-Pesa code, a marked code
\* with an eMola prefix, loose eMola codes, and bare tokens of 10 characters
ProviderWords == {<<>>, <<"M", "-", "P", "e", "s", "a", " ">>, <<"p", "a", "g", "a", "m", "e", "n", "t", "o", " ", "e", "m", "o", "l", "a", " ">>}

CodeFragments ==
  {<<>>, <<"P", "P", "2", "6", "0", "1", "1", "6", ".", "2", "0", "2", "6", ".", "W", "2", "2", "1", "5", "6", " ">>, <<"p", "p", "2", "6", "0", "1", "1", "6", ".", "2", "0", "2", "6", ".", "w", "2", "2", "1", "5", "7", " ">>, <<"C", "I", "2", "6", "0", "1", "2", "8", ".", "1", "5", "2", "6", ".", "P", "3", "8", "8", "0", "5", " ">>,
   <<"C", "o", "n", "f", "i", "r", "m", "a", "d", "o", " ", "D", "A", "T", "2", "I", "V", "Y", "A", "7", "R", "0", " ">>, <<"c", "o", "n", "f", "i", "r", "m", "a", "d", "o", " ", "p", "p", "1", "2", "3", "4", "5", "6", "7", "8", " ">>, <<"P", "P", "1", "2", "3", "4", "5", "6", " ">>, <<"C", "I", "A", "B", "C", ".", "1", "2", "3", " ">>,
   <<"A", "B", "1", "2", "3", "4", "5", "6", "7", "8", " ">>, <<"1", "2", "3", "4", "5", "6", "7", "8", "9", "0", " ">>, <<"A", "B", "C", "D", "E", "F", "G", "H", "I", "J", " ">>}

\* messages for extractTransactionCode
CodeMessages == {w \o f \o g : w \in ProviderWords, f \in CodeFragments, g \in CodeFragments}

\* fragments with amounts: zero and positive tokens followed by MT, numbers after a
\* keyword without MT, a run of 7 digits, and text with no amount
AmountFragments ==
  {<<>>, <<"0", "M", "T", " ">>, <<"0", ",", "0", "0", " ", "M", "T", " ">>, <<"5", "0", "M", "T", " ">>, <<"1", "2", ",", "5", " ", "m", "t", " ">>, <<"1", "0", "0", ".", "5", "1", "M", "T", " ">>, <<"v", "a", "l", "o", "r", ":", " ", "7", "0", " ">>,
   <<"T", "r", "a", "n", "s", "f", "e", "r", "i", "s", "t", "e", " ", "2", "5", ",", "0", "0", "M", "T", " ">>, <<"m", "o", "n", "t", "a", "n", "t", "e", " ", "0", " ">>, <<"1", "2", "3", "4", "5", "6", "7", "M", "T", " ">>, <<"7", " ">>, <<"a", "b", "c", " ">>}

\* messages for extractAmount
AmountMessages == {f \o g : f \in AmountFragments, g \in AmountFragments}

\* the longest body of a typed code
MaxCodeBody == 14

\* bodies of typed codes: letters and digits, digits only, letters only, the tail
\* of an eMola code, lower case, and a character no grammar allows
CodeBodies ==
  {<<"A", "1", "B", "2", "C", "3", "D", "4", "E", "5", "F", "6", "G", "7", "H", "8">>, <<"1", "2", "3", "4", "5", "6", "7", "8", "9", "0", "1", "2", "3", "4", "5", "6">>, <<"A", "B", "C", "D", "E", "F", "G", "H", "I", "J", "K", "L", "M", "N", "O", "P">>, <<"2", "6", "0", "1", "1", "6", ".", "2", "0", "2", "6", ".", "W", "2", "2", "1", "5", "6">>,
   <<"a", "b", "1", "2", "c", "d", "3", "4", "e", "f", "5", "6", "g", "h", "7", "8">>, <<"A", "1", "B", "2", "-", "C", "3", "D", "4", "E", "5", "F", "6", "G", "7", "H">>}

\* typed codes: blanks around a prefix and the first n characters of a body
ManualCodes ==
  {pad \o prefix \o SubSeq(body, 1, n) \o pad :
     pad \in {<<>>, <<" ">>}, prefix \in {<<>>, <<"P", "P">>, <<"C", "I">>, <<"c", "i">>, <<"X", "P">>},
     body \in CodeBodies, n \in 0..MaxCodeBody}

(***************************************************************************)
(* src/src/lib/whatsappTemplates.ts                                        *)
(***************************************************************************)

\* encodeURIComponent of one character: letters, digits and - _ . ! ~ * ' ( ) stay,
\* every other (ASCII) character becomes % and its code in hexadecimal
EncodeChar(c) ==
  IF c \in UpperLetters \cup LowerLetters \cup Digits \cup {"-", "_", ".", "!", "~", "*", "'", "(", ")"} THEN <<c>>
  ELSE CASE c = " " -> <<"%", "2", "0">> [] c = "+" -> <<"%", "2", "B">> [] c = "?" -> <<"%", "3", "F">> [] c = "=" -> <<"%", "3", "D">>
         [] c = "&" -> <<"%", "2", "6">> [] c = ":" -> <<"%", "3", "A">> [] c = "/" -> <<"%", "2", "F">> [] c = "," -> <<"%", "2", "C">>

RECURSIVE encodeURIComponent(_)
encodeURIComponent(s) ==
  IF s = <<>> THEN <<>> ELSE EncodeChar(Head(s)) \o encodeURIComponent(Tail(s))

\* `https://wa.me/${cleanNumber}?text=${encodeURIComponent(message)}`
generateWhatsAppLink(phoneNumber, message) ==
  <<"h", "t", "t", "p", "s", ":", "/", "/", "w", "a", ".", "m", "e", "/">> \o Filter(phoneNumber, Digits) \o <<"?", "t", "e", "x", "t", "=">> \o encodeURIComponent(message)

\* messages with characters that are kept and characters that are encoded
LinkMessages == {<<>>, <<"O", "l", "a", ",", " ", "p", "a", "g", "o", ":", " ", "1", "0", "0", " ", "M", "T", "?", "a", "=", "b", "&", "c", "+", "d", "/", "e">>}

LibCalls ==
  {[fn |-> "normalizePhone", phone |-> ph, returned |-> <<>>] : ph \in PhoneInputs}
  \cup {[fn |-> "extractRecipientPhone", message |-> m, returned |-> <<>>] :
          m \in RecipientMessages}
  \cup {[fn |-> "extractTransactionCode", message |-> m, returned |-> <<>>] :
          m \in CodeMessages}
  \cup {[fn |-> "extractAmount", message |-> m, returned |-> <<>>] :
          m \in AmountMessages}
  \cup {[fn |-> "validateManualCode", code |-> c, returned |-> <<>>] :
          c \in ManualCodes}
  \cup {[fn |-> "generateWhatsAppLink", phone |-> ph, message |-> m, returned |-> <<>>] :
          ph \in PhoneInputs, m \in LinkMessages}
  \cup {[fn |-> "validatePaymentData", extracted |-> <<e>>, expectedAmount |-> ServicePrice,
         expectedRecipientPhone |-> ph, returned |-> <<>>] :
          e \in ExtractedInputs, ph \in ExpectedRecipientInputs}
  \cup {[fn |-> "extractAndValidate", message |-> m, extracted |-> <<>>,
         expectedAmount |-> ServicePrice, expectedRecipientPhone |-> ph,
         returned |-> <<>>] :
          m \in PaymentMessages, ph \in ExpectedRecipientInputs}

Pending(fn) == call.fn = fn /\ call.returned = <<>>

Returned(fn) == call.fn = fn /\ call.returned # <<>>

CallNormalizePhone ==
  /\ Pending("normalizePhone")
  /\ call' = [call EXCEPT !.returned = <<normalizePhone(call.phone)>>]
  /\ UNCHANGED <<uiVars, lastIndex, db>>

CallExtractRecipientPhone ==
  /\ Pending("extractRecipientPhone")
  /\ call' = [call EXCEPT !.returned = <<extractRecipientPhone(call.message)>>]
  /\ UNCHANGED <<uiVars, lastIndex, db>>

CallExtractTransactionCode ==
  /\ Pending("extractTransactionCode")
  /\ call' = [call EXCEPT !.returned = <<extractTransactionCode(call.message)>>]
  /\ UNCHANGED <<uiVars, lastIndex, db>>

CallExtractAmount ==
  /\ Pending("extractAmount")
  /\ call' = [call EXCEPT !.returned = <<extractAmount(call.message)>>]
  /\ UNCHANGED <<uiVars, lastIndex, db>>

CallValidateManualCode ==
  /\ Pending("validateManualCode")
  /\ call' = [call EXCEPT !.returned = <<validateManualCode(call.code)>>]
  /\ UNCHANGED <<uiVars, lastIndex, db>>

CallGenerateWhatsAppLink ==
  /\ Pending("generateWhatsAppLink")
  /\ call' = [call EXCEPT !.returned = <<generateWhatsAppLink(call.phone, call.message)>>]
  /\ UNCHANGED <<uiVars, lastIndex, db>>

\* extractPaymentData on a message, as the payment step's first effect calls it
CallExtractPaymentData ==
  /\ Pending("extractAndValidate")
  /\ call.extracted = <<>>
  /\ call' = [call EXCEPT !.extracted = <<extractPaymentData(call.message, "none")>>]
  /\ UNCHANGED <<uiVars, lastIndex, db>>

\* validatePaymentData, on a given ExtractedPaymentData or on the one just extracted
CallValidatePaymentData ==
  /\ Pending("validatePaymentData") \/ Pending("extractAndValidate")
  /\ call.extracted # <<>>
  /\ call' = [call EXCEPT !.returned =
                <<validatePaymentData(call.extracted[1], call.expectedAmount,
                                      call.expectedRecipientPhone)>>]
  /\ UNCHANGED <<uiVars, lastIndex, db>>

InitLib ==
  /\ props = [paymentMethods |-> <<"mpesa">>, mpesaNumber |-> MpesaNumber,
              emolaNumber |-> EmolaNumber, appointmentId |-> NULL,
              servicePrice |-> ServicePrice, whatsappNumber |-> WhatsappNumber]
  /\ selectedMethod = "mpesa"
  /\ confirmationMessage = <<>>
  /\ manualCode = <<>>
  /\ extractedData = <<>>
  /\ validation = <<>>
  /\ isManualEntry = FALSE
  /\ isPaymentConfirmed = FALSE
  /\ isValidating = FALSE
  /\ validationError = NULL
  /\ inflight = <<>>
  /\ whatsappOpened = FALSE
  /\ completed = FALSE
  /\ db = NoDb
  /\ call \in LibCalls
  /\ lastIndex = ZeroLastIndex

NextLib ==
  \/ CallNormalizePhone
  \/ CallExtractRecipientPhone
  \/ CallExtractTransactionCode
  \/ CallExtractAmount
  \/ CallValidateManualCode
  \/ CallGenerateWhatsAppLink
  \/ CallExtractPaymentData
  \/ CallValidatePaymentData

SpecLib == InitLib /\ [][NextLib]_vars

(***************************************************************************)
(* The extraction functions called again and again in one page: the        *)
(* module-level patterns, and their lastIndex, live as long as the module  *)
(***************************************************************************)

\* how many calls a behaviour makes
MaxCalls == 4

\* messages with codes of every tier, several matches of one pattern, and text
\* after the last match
SessionMessages ==
  {<<>>,
   <<"P", "P", "2", "6", "0", "1", "1", "6", ".", "2", "0", "2", "6", ".", "W", "2", "2", "1", "5", "6", " ", "5", "M", "T", " ", "p", "/", "8", "4", "1", "2", "3", "4", "5", "6", "7", " ", "o", "k">>,
   <<"C", "I", "2", "6", "0", "1", "2", "8", ".", "1", "5", "2", "6", ".", "P", "3", "8", "8", "0", "5", " ", "5", "0", "M", "T", " ", "p", "/", "8", "4", "1", "2", "3", "4", "5", "6", "7">>,
   <<"P", "P", "1", "2", "3", "4", "5", "6", " ", "P", "P", "1", "2", "3", "4", "5", "7", " ", "0", "M", "T", " ", "8", "M", "T", " ", "p", "/", "8", "4", "1", "2", "3", "4", "5", "6", "7">>,
   <<"A", "B", "1", "2", "3", "4", "5", "6", "7", "8", " ", "A", "B", "1", "2", "3", "4", "5", "6", "7", "9", " ", "v", "a", "l", "o", "r", " ", "7", " ", "p", "/", "8", "4">>,
   <<"m", "p", "e", "s", "a", " ", "C", "o", "n", "f", "i", "r", "m", "a", "d", "o", " ", "D", "A", "T", "2", "I", "V", "Y", "A", "7", "R", "0", " ", "7", "M", "T">>}

\* the call returns r.result and leaves the patterns as r.lastIndex says
ReturnWith(fn, message, preferredMethod, r) ==
  /\ call.nth < MaxCalls
  /\ call' = [fn |-> fn, message |-> message, preferredMethod |-> preferredMethod,
              returned |-> <<r.result>>, nth |-> call.nth + 1]
  /\ lastIndex' = r.lastIndex
  /\ UNCHANGED <<uiVars, db>>

ExtractPaymentDataAgain(message, preferredMethod) ==
  ReturnWith("extractPaymentData", message, preferredMethod, extractPaymentDataWith(message, preferredMethod, lastIndex))

ExtractTransactionCodeAgain(message) ==
  ReturnWith("extractTransactionCode", message, "none", extractTransactionCodeWith(message, lastIndex))

ExtractAmountAgain(message) ==
  ReturnWith("extractAmount", message, "none", ExtractAmountWith(message, 1, lastIndex))

ExtractRecipientPhoneAgain(message) ==
  ReturnWith("extractRecipientPhone", message, "none", ExtractRecipientWith(message, 1, lastIndex))

InitCalls ==
  /\ props = [paymentMethods |-> <<"mpesa">>, mpesaNumber |-> MpesaNumber,
              emolaNumber |-> EmolaNumber, appointmentId |-> NULL,
              servicePrice |-> ServicePrice, whatsappNumber |-> WhatsappNumber]
  /\ selectedMethod = "mpesa"
  /\ confirmationMessage = <<>>
  /\ manualCode = <<>>
  /\ extractedData = <<>>
  /\ validation = <<>>
  /\ isManualEntry = FALSE
  /\ isPaymentConfirmed = FALSE
  /\ isValidating = FALSE
  /\ validationError = NULL
  /\ inflight = <<>>
  /\ whatsappOpened = FALSE
  /\ completed = FALSE
  /\ db = NoDb
  /\ call = [fn |-> "none", nth |-> 0]
  /\ lastIndex = ZeroLastIndex

NextCalls ==
  \/ \E message \in SessionMessages :
       \E preferredMethod \in {"none", "emola"} :
         ExtractPaymentDataAgain(message, preferredMethod)
  \/ \E message \in SessionMessages : ExtractTransactionCodeAgain(message)
  \/ \E message \in SessionMessages : ExtractAmountAgain(message)
  \/ \E message \in SessionMessages : ExtractRecipientPhoneAgain(message)

SpecCalls == InitCalls /\ [][NextCalls]_vars

(***************************************************************************)
(* Time slots: src/unnamed/part_002 (with buffers) and                     *)
(* src/src/lib/timeSlotUtils.ts (without).  A number that may be NaN, and  *)
(* a result that may be null, is <<>> or <<n>>.                            *)
(***************************************************************************)

RECURSIVE SplitFrom(_, _, _)
SplitFrom(s, sep, part) ==
  IF s = <<>> THEN <<part>>
  ELSE IF Head(s) = sep THEN <<part>> \o SplitFrom(Tail(s), sep, <<>>)
  ELSE SplitFrom(Tail(s), sep, Append(part, Head(s)))

\* String.prototype.split(sep), sep one character
Split(s, sep) == SplitFrom(s, sep, <<>>)

RECURSIVE DigitPrefix(_)
DigitPrefix(s) ==
  IF s = <<>> \/ Head(s) \notin Digits THEN <<>> ELSE <<Head(s)>> \o DigitPrefix(Tail(s))

ParseDigits(ds, sign) == IF ds = <<>> THEN <<>> ELSE <<sign * DecimalValue(ds)>>

ParseSigned(t) ==
  IF t # <<>> /\ Head(t) = "-" THEN ParseDigits(DigitPrefix(Tail(t)), -1)
  ELSE IF t # <<>> /\ Head(t) = "+" THEN ParseDigits(DigitPrefix(Tail(t)), 1)
  ELSE ParseDigits(DigitPrefix(t), 1)

\* parseInt(s, 10): leading white space, a sign, then the digits up to the first other character
parseInt(s) == ParseSigned(TrimLeft(s))

NumberOfTrimmed(t) ==
  IF t = <<>> THEN <<0>>
  ELSE IF t \in Seq(Digits) THEN <<DecimalValue(t)>>
  ELSE IF Len(t) > 1 /\ Head(t) = "-" /\ Tail(t) \in Seq(Digits) THEN <<0 - DecimalValue(Tail(t))>>
  ELSE <<>>

\* Number(s) for the strings split(':') gives: the whole string must be a number
NumberOf(s) == NumberOfTrimmed(trim(s))

RECURSIVE NatToString(_)
NatToString(n) ==
  IF n < 10 THEN <<DigitSeq[n + 1]>> ELSE NatToString(n \div 10) \o <<DigitSeq[(n % 10) + 1]>>

\* Number.prototype.toString of an integer
NumberToString(n) == IF n < 0 THEN <<"-">> \o NatToString(0 - n) ELSE NatToString(n)

\* s.padStart(2, '0')
PadStart2(s) == IF Len(s) < 2 THEN <<"0">> \o s ELSE s

\* a % b of JavaScript: the sign of the dividend
JsRem(a, b) == IF a >= 0 THEN a % b ELSE 0 - ((0 - a) % b)

TimeOfParts(hours, mins) ==
  IF \/ hours = <<>> \/ mins = <<>>
     \/ hours[1] < 0 \/ hours[1] > 23
     \/ mins[1] < 0 \/ mins[1] > 59
  THEN <<>>
  ELSE <<hours[1] * 60 + mins[1]>>

TimeOfSplit(parts) ==
  IF Len(parts) < 2 THEN <<>> ELSE TimeOfParts(parseInt(parts[1]), parseInt(parts[2]))

parseTimeToMinutes(time) == TimeOfSplit(Split(time, ":"))

\* also the three lines that format a slot in timeSlotUtils.ts
minutesToTime(minutes) ==
  PadStart2(NumberToString(minutes \div 60)) \o <<":">> \o PadStart2(NumberToString(JsRem(minutes, 60)))

\* !openingTime: null, undefined or the empty string
IsMissing(time) == time = NULL \/ time = <<>>

\* how many slots one call is followed for
MaxSlots == 8

\* the loop of a call is about to run with these values
Looping(c, from, limit, interval) ==
  [c EXCEPT !.pc = "loop", !.currentMinutes = from, !.limit = limit, !.interval = interval]

ReturnSlots(c) == [c EXCEPT !.pc = "returned"]

EffectiveInterval(intervalMinutes) == IF intervalMinutes > 0 THEN intervalMinutes ELSE 30

RoundedStartNone(scheduleStart, interval) == scheduleStart

\* Math.ceil(scheduleStart / interval) * interval
RoundedStart(scheduleStart, interval) == (0 - ((0 - scheduleStart) \div interval)) * interval

EnterWindow(c, scheduleStart, scheduleEnd, interval) ==
  IF scheduleStart >= scheduleEnd THEN ReturnSlots(c)
  ELSE Looping(c, RoundedStart(scheduleStart, interval), scheduleEnd, interval)

EnterParsed(c, openingMinutes, closingMinutes) ==
  IF openingMinutes = <<>> \/ closingMinutes = <<>> THEN ReturnSlots(c)
  ELSE EnterWindow(c, openingMinutes[1] + c.prepBufferMinutes,
                   closingMinutes[1] - c.cleanupBufferMinutes,
                   EffectiveInterval(c.intervalMinutes))

SlotVarsUnchanged == UNCHANGED <<uiVars, lastIndex, db>>

\* part_002: from the call to the first test of the loop condition
generateBusinessTimeSlots ==
  /\ call.fn = "generateBusinessTimeSlots"
  /\ call.variant = "buffers"
  /\ call.pc = "start"
  /\ call' = IF IsMissing(call.openingTime) \/ IsMissing(call.closingTime)
             THEN ReturnSlots(call)
             ELSE EnterParsed(call, parseTimeToMinutes(call.openingTime),
                              parseTimeToMinutes(call.closingTime))
  /\ SlotVarsUnchanged

EnterPlainWindow(c, openingMinutes, closingMinutes) ==
  IF openingMinutes >= closingMinutes THEN ReturnSlots(c)
  ELSE Looping(c, openingMinutes, closingMinutes - c.intervalMinutes, c.intervalMinutes)

EnterPlainParsed(c, opening, closing) ==
  IF opening = <<>> \/ closing = <<>> THEN ReturnSlots(c)
  ELSE EnterPlainWindow(c, opening[1], closing[1])

\* the two times are tested in one condition, which is the condition of parseTimeToMinutes on each
EnterPlainSplit(c, openingParts, closingParts) ==
  IF Len(openingParts) < 2 \/ Len(closingParts) < 2 THEN ReturnSlots(c)
  ELSE EnterPlainParsed(c, TimeOfSplit(openingParts), TimeOfSplit(closingParts))

\* timeSlotUtils.ts: from the call to the first test of the loop condition
generateBusinessTimeSlotsPlain ==
  /\ call.fn = "generateBusinessTimeSlots"
  /\ call.variant = "plain"
  /\ call.pc = "start"
  /\ call' = IF IsMissing(call.openingTime) \/ IsMissing(call.closingTime)
             THEN ReturnSlots(call)
             ELSE EnterPlainSplit(call, Split(call.openingTime, ":"), Split(call.closingTime, ":"))
  /\ SlotVarsUnchanged

\* one round of for (currentMinutes = ...; currentMinutes <= limit; currentMinutes += interval)
LoopStep ==
  /\ call.fn = "generateBusinessTimeSlots"
  /\ call.pc = "loop"
  /\ call.currentMinutes <= call.limit
  /\ Len(call.slots) < MaxSlots
  /\ call' = [call EXCEPT !.slots = Append(@, minutesToTime(call.currentMinutes)),
                          !.currentMinutes = @ + call.interval]
  /\ SlotVarsUnchanged

\* the loop condition fails: return slots
LoopExit ==
  /\ call.fn = "generateBusinessTimeSlots"
  /\ call.pc = "loop"
  /\ ~(call.currentMinutes <= call.limit)
  /\ call' = ReturnSlots(call)
  /\ SlotVarsUnchanged

\* part_002: the minutes an appointment occupies; {0, 0} for a time that does not parse
OccupiedOfStart(startMinutes, duration) ==
  IF startMinutes = <<>> THEN [start |-> 0, end |-> 0]
  ELSE [start |-> startMinutes[1], end |-> startMinutes[1] + duration]

OccupiedAt(existingAppointments, k) ==
  OccupiedOfStart(parseTimeToMinutes(existingAppointments[k].appointment_time),
                  existingAppointments[k].duration)

OccupiedSlots(existingAppointments) ==
  SelectSeq([k \in 1..Len(existingAppointments) |-> OccupiedAt(existingAppointments, k)],
            LAMBDA slot : slot.start # 0 \/ slot.end # 0)

HasConflict(slotStart, slotEnd, occupiedSlots) ==
  \E k \in 1..Len(occupiedSlots) :
    slotStart < occupiedSlots[k].end /\ slotEnd > occupiedSlots[k].start

SlotKept(slotStart, serviceDuration, scheduleEndMinutes, occupiedSlots) ==
  /\ slotStart # <<>>
  /\ ~(slotStart[1] + serviceDuration > scheduleEndMinutes)
  /\ ~HasConflict(slotStart[1], slotStart[1] + serviceDuration, occupiedSlots)

FilterUntil(allSlots, occupiedSlots, serviceDuration, scheduleEndMinutes) ==
  SelectSeq(allSlots, LAMBDA slot :
    SlotKept(parseTimeToMinutes(slot), serviceDuration, scheduleEndMinutes, occupiedSlots))

FilterParsed(allSlots, existingAppointments, serviceDuration, closingMinutes, cleanupBufferMinutes) ==
  IF closingMinutes = <<>> THEN allSlots
  ELSE FilterUntil(allSlots, OccupiedSlots(existingAppointments), serviceDuration,
                   closingMinutes[1] - cleanupBufferMinutes)

\* part_002
filterAvailableSlots(allSlots, existingAppointments, serviceDuration, closingTime, cleanupBufferMinutes) ==
  IF IsMissing(closingTime) THEN allSlots
  ELSE FilterParsed(allSlots, existingAppointments, serviceDuration,
                    parseTimeToMinutes(closingTime), cleanupBufferMinutes)

\* arithmetic and comparison of numbers that may be NaN
NumPlus(a, b) == IF a = <<>> \/ b = <<>> THEN <<>> ELSE <<a[1] + b[1]>>

NumTimes(a, b) == IF a = <<>> \/ b = <<>> THEN <<>> ELSE <<a[1] * b[1]>>

NumLess(a, b) == a # <<>> /\ b # <<>> /\ a[1] < b[1]

\* h * 60 + m
HourMinute(h, m) == NumPlus(NumTimes(h, <<60>>), m)

\* const [h, m] = parts.map(Number); a part that is not there is undefined
MinutesOfNumbers(parts) ==
  HourMinute(NumberOf(parts[1]), IF Len(parts) < 2 THEN <<>> ELSE NumberOf(parts[2]))

MinutesByNumber(time) == MinutesOfNumbers(Split(time, ":"))

OccupiedPlainOfStart(startMinutes, duration) ==
  [start |-> startMinutes, end |-> NumPlus(startMinutes, <<duration>>)]

OccupiedPlain(existingAppointments) ==
  [k \in 1..Len(existingAppointments) |->
    OccupiedPlainOfStart(MinutesByNumber(existingAppointments[k].appointment_time),
                         existingAppointments[k].duration)]

HasConflictPlain(slotStart, slotEnd, occupiedSlots) ==
  \E k \in 1..Len(occupiedSlots) :
    NumLess(slotStart, occupiedSlots[k].end) /\ NumLess(occupiedSlots[k].start, slotEnd)

SlotKeptPlain(slotStart, slotEnd, closingMinutes, occupiedSlots) ==
  /\ ~NumLess(closingMinutes, slotEnd)
  /\ ~HasConflictPlain(slotStart, slotEnd, occupiedSlots)

SlotKeptPlainAt(slotStart, serviceDuration, closingMinutes, occupiedSlots) ==
  SlotKeptPlain(slotStart, NumPlus(slotStart, <<serviceDuration>>), closingMinutes, occupiedSlots)

FilterPlainUntil(allSlots, occupiedSlots, serviceDuration, closingMinutes) ==
  SelectSeq(allSlots, LAMBDA slot :
    SlotKeptPlainAt(MinutesByNumber(slot), serviceDuration, closingMinutes, occupiedSlots))

FilterPlainSplit(allSlots, existingAppointments, serviceDuration, closeParts) ==
  IF Len(closeParts) < 2 THEN allSlots
  ELSE FilterPlainUntil(allSlots, OccupiedPlain(existingAppointments), serviceDuration,
                        HourMinute(parseInt(closeParts[1]), parseInt(closeParts[2])))

\* timeSlotUtils.ts
filterAvailableSlotsPlain(allSlots, existingAppointments, serviceDuration, closingTime) ==
  IF IsMissing(closingTime) THEN allSlots
  ELSE FilterPlainSplit(allSlots, existingAppointments, serviceDuration, Split(closingTime, ":"))

CallFilterAvailableSlots ==
  /\ call.fn = "filterAvailableSlots"
  /\ call.variant = "buffers"
  /\ call.pc = "start"
  /\ call' = [call EXCEPT !.pc = "returned",
                          !.slots = filterAvailableSlots(call.allSlots, call.existingAppointments,
                                      call.serviceDuration, call.closingTime,
                                      call.cleanupBufferMinutes)]
  /\ SlotVarsUnchanged

CallFilterAvailableSlotsPlain ==
  /\ call.fn = "filterAvailableSlots"
  /\ call.variant = "plain"
  /\ call.pc = "start"
  /\ call' = [call EXCEPT !.pc = "returned",
                          !.slots = filterAvailableSlotsPlain(call.allSlots, call.existingAppointments,
                                      call.serviceDuration, call.closingTime)]
  /\ SlotVarsUnchanged

\* opening and closing times: missing, empty, without a colon, not numbers, out of range,
\* and times of day as the form and the database (HH:MM:SS) write them
SlotTimes == {NULL, <<>>, <<"8", "h">>, <<"a", "b", ":", "c", "d">>, <<"2", "4", ":", "0", "0">>, <<"0", "8", ":", "0", "0">>, <<"0", "8", ":", "1", "0", ":", "0", "0">>, <<"0", "9", ":", "3", "0">>, <<"1", "0", ":", "0", "0">>}

SlotIntervals == {0 - 30, 0, 20, 30}

\* check_prep_buffer_non_negative, check_cleanup_buffer_non_negative
SlotBuffers == {0, 15, 120}

GenerateCall(variant, o, c, i, p, q) ==
  [fn |-> "generateBusinessTimeSlots", variant |-> variant, openingTime |-> o, closingTime |-> c,
   intervalMinutes |-> i, prepBufferMinutes |-> p, cleanupBufferMinutes |-> q,
   pc |-> "start", currentMinutes |-> 0, limit |-> 0, interval |-> 0, slots |-> <<>>]

GenerateCalls ==
  {GenerateCall("buffers", o, c, i, p, q) :
     o \in SlotTimes, c \in SlotTimes, i \in SlotIntervals, p \in SlotBuffers, q \in SlotBuffers}
  \cup {GenerateCall("plain", o, c, i, 0, 0) : o \in SlotTimes, c \in SlotTimes, i \in SlotIntervals}

Appointment(time, duration) == [appointment_time |-> time, duration |-> duration]

AllSlotsInputs ==
  {<<>>, <<<<"0", "8", ":", "0", "0">>, <<"0", "8", ":", "3", "0">>, <<"0", "9", ":", "0", "0">>, <<"0", "9", ":", "3", "0">>>>, <<<<"0", "9", ":", "2", "0">>, <<"0", "8", ":", "4", "0">>, <<"8", "h">>>>}

ExistingAppointmentsInputs ==
  {<<>>, <<Appointment(<<"0", "8", ":", "3", "0", ":", "0", "0">>, 30)>>, <<Appointment(<<"0", "9", ":", "0", "0">>, 45), Appointment(<<"0", "8", ":", "0", "0">>, 20)>>,
   <<Appointment(<<"a", "b", ":", "c", "d">>, 30)>>, <<Appointment(<<"0", "0", ":", "0", "0">>, 0), Appointment(<<"0", "9", ":", "3", "0">>, 30)>>}

ServiceDurations == {20, 30, 60}

FilterClosingTimes == {NULL, <<>>, <<"a", "b", ":", "c", "d">>, <<"1", "0", "h">>, <<"1", "0", ":", "0", "0">>, <<"0", "9", ":", "3", "0", ":", "0", "0">>}

FilterCall(variant, a, e, d, c, q) ==
  [fn |-> "filterAvailableSlots", variant |-> variant, allSlots |-> a, existingAppointments |-> e,
   serviceDuration |-> d, closingTime |-> c, cleanupBufferMinutes |-> q,
   pc |-> "start", slots |-> <<>>]

FilterCalls ==
  {FilterCall("buffers", a, e, d, c, q) :
     a \in AllSlotsInputs, e \in ExistingAppointmentsInputs, d \in ServiceDurations,
     c \in FilterClosingTimes, q \in {0, 15}}
  \cup {FilterCall("plain", a, e, d, c, 0) :
     a \in AllSlotsInputs, e \in ExistingAppointmentsInputs, d \in ServiceDurations,
     c \in FilterClosingTimes}

InitSlots ==
  /\ props = [paymentMethods |-> <<"mpesa">>, mpesaNumber |-> MpesaNumber,
              emolaNumber |-> EmolaNumber, appointmentId |-> NULL,
              servicePrice |-> ServicePrice, whatsappNumber |-> WhatsappNumber]
  /\ selectedMethod = "mpesa"
  /\ confirmationMessage = <<>>
  /\ manualCode = <<>>
  /\ extractedData = <<>>
  /\ validation = <<>>
  /\ isManualEntry = FALSE
  /\ isPaymentConfirmed = FALSE
  /\ isValidating = FALSE
  /\ validationError = NULL
  /\ inflight = <<>>
  /\ whatsappOpened = FALSE
  /\ completed = FALSE
  /\ db = NoDb
  /\ call \in GenerateCalls \cup FilterCalls
  /\ lastIndex = ZeroLastIndex

NextSlots ==
  \/ generateBusinessTimeSlots
  \/ generateBusinessTimeSlotsPlain
  \/ LoopStep
  \/ LoopExit
  \/ CallFilterAvailableSlots
  \/ CallFilterAvailableSlotsPlain

SpecSlots == InitSlots /\ [][NextSlots]_vars

(***************************************************************************)
(* Appointments and the trigger validate_appointment                       *)
(* (src/unnamed/part_001).  Times are minutes of day.                      *)
(***************************************************************************)

\* public.barbershops
Barbershops ==
  [shop   |-> [active |-> TRUE, approval_status |-> "approved", business_type |-> "barbearia"],
   closed |-> [active |-> FALSE, approval_status |-> "approved", business_type |-> "barbearia"]]

AllBusinessTypes == {"barbearia", "salao", "salao_barbearia"}

\* public.services (all of barbershop 'shop')
Services ==
  [s30  |-> [duration |-> 30, active |-> TRUE, allowed_business_types |-> AllBusinessTypes],
   s60  |-> [duration |-> 60, active |-> TRUE, allowed_business_types |-> AllBusinessTypes],
   sOff |-> [duration |-> 30, active |-> FALSE, allowed_business_types |-> AllBusinessTypes]]

\* public.barbers (all of barbershop 'shop')
Barbers == [b1 |-> [active |-> TRUE], b2 |-> [active |-> TRUE], bOff |-> [active |-> FALSE]]

\* public.service_professionals: <<service_id, professional_id>>
ServiceProfessionals == {<<"s30", "b1">>}

BookingOk == <<"ok">>

ErrShop == <<"Estabelecimento nao encontrado ou inativo.">>

ErrService == <<"Servico nao encontrado ou inativo.">>

ErrServiceType == <<"Este servico nao esta disponivel para este tipo de estabelecimento.">>

ErrProfessional == <<"Profissional nao encontrado ou inativo.">>

ErrNotLinked == <<"Este profissional nao realiza o servico selecionado.">>

ErrSlotTaken == <<"Horario indisponivel. O profissional ja possui um agendamento neste periodo.">>

\* (t::time + (d || ' minutes')::interval)::time: a time of day, past midnight it starts again
TimePlus(t, d) == (t + d) % 1440

\* the WHERE clause of the conflict query, for one row a
ConflictsWith(new, a, v_service_duration) ==
  /\ a.barber_id = new.barber_id
  /\ a.appointment_date = new.appointment_date
  /\ a.status # "cancelled"
  /\ a.id # new.id
  /\ \/ /\ new.appointment_time >= a.appointment_time
        /\ new.appointment_time < TimePlus(a.appointment_time, Services[a.service_id].duration)
     \/ /\ TimePlus(new.appointment_time, v_service_duration) > a.appointment_time
        /\ new.appointment_time < a.appointment_time

\* the trigger function on NEW, reading the rows its queries see: the error raised, or ok
validate_appointment(new, rows) ==
  IF ~(Barbershops[new.barbershop_id].active
       /\ Barbershops[new.barbershop_id].approval_status = "approved")
  THEN ErrShop
  ELSE IF ~Services[new.service_id].active THEN ErrService
  ELSE IF Barbershops[new.barbershop_id].business_type
            \notin Services[new.service_id].allowed_business_types
  THEN ErrServiceType
  ELSE IF ~Barbers[new.barber_id].active THEN ErrProfessional
  ELSE IF /\ Barbershops[new.barbershop_id].business_type \in {"salao", "salao_barbearia"}
          /\ <<new.service_id, new.barber_id>> \notin ServiceProfessionals
  THEN ErrNotLinked
  ELSE IF \E a \in rows : ConflictsWith(new, a, Services[new.service_id].duration)
  THEN ErrSlotTaken
  ELSE BookingOk

\* how many appointments the table gets
MaxRows == 2

\* the clients' connections, one transaction at a time each
Txns == {"t1", "t2"}

\* 09:00, 09:30, 23:30
BookingTimes == {540, 570, 1410}

AppointmentRow(id, shop, barber, service, time, status) ==
  [id |-> id, barbershop_id |-> shop, barber_id |-> barber, service_id |-> service,
   appointment_date |-> "d1", appointment_time |-> time, status |-> status]

\* the bookings clients submit: of two professionals and two services, and one each
\* for a closed shop, a service and a professional that are not active
NewAppointments(id) ==
  {AppointmentRow(id, "shop", b, s, t, "pending") : b \in {"b1", "b2"}, s \in {"s30", "s60"}, t \in BookingTimes}
  \cup {AppointmentRow(id, "closed", "b1", "s30", 540, "pending"),
        AppointmentRow(id, "shop", "b1", "sOff", 540, "pending"),
        AppointmentRow(id, "shop", "bOff", "s30", 540, "pending")}

\* the ids of the rows written, committed or not
UsedIds == {a.id : a \in db.appointments} \cup {db.open[t][1].id : t \in {u \in Txns : db.open[u] # <<>>}}

\* the statement of transaction t has run its BEFORE trigger: the row is written, not yet
\* committed, unless the trigger raised
Written(t, op, new, error) ==
  db' = [db EXCEPT !.open[t] = IF error = BookingOk THEN <<new>> ELSE <<>>,
                   !.statement = [txn |-> t, op |-> op, new |-> new, error |-> error]]

BookingVarsUnchanged == UNCHANGED <<uiVars, call, lastIndex>>

\* INSERT INTO appointments in a transaction of its own; the trigger's queries see the
\* rows committed so far (READ COMMITTED)
InsertAppointment(t, new) ==
  /\ db.open[t] = <<>>
  /\ new.id \notin UsedIds
  /\ Written(t, "insert", new, validate_appointment(new, db.appointments))
  /\ BookingVarsUnchanged

\* UPDATE appointments SET status, appointment_time WHERE id = ...; waits while another
\* transaction holds the row
UpdateAppointment(t, old, status, time) ==
  /\ db.open[t] = <<>>
  /\ old \in db.appointments
  /\ \A u \in Txns : IF db.open[u] = <<>> THEN TRUE ELSE db.open[u][1].id # old.id
  /\ Written(t, "update", [old EXCEPT !.status = status, !.appointment_time = time],
             validate_appointment([old EXCEPT !.status = status, !.appointment_time = time],
                                  db.appointments))
  /\ BookingVarsUnchanged

CommitRow(rows, new) == {a \in rows : a.id # new.id} \cup {new}

\* COMMIT
CommitBooking(t) ==
  /\ db.open[t] # <<>>
  /\ db' = [db EXCEPT !.appointments = CommitRow(@, db.open[t][1]), !.open[t] = <<>>]
  /\ BookingVarsUnchanged

\* ROLLBACK, or the connection is lost
RollbackBooking(t) ==
  /\ db.open[t] # <<>>
  /\ db' = [db EXCEPT !.open[t] = <<>>]
  /\ BookingVarsUnchanged

NoStatement == [txn |-> "none", op |-> "none", new |-> <<>>, error |-> BookingOk]

InitBooking ==
  /\ props = [paymentMethods |-> <<"mpesa">>, mpesaNumber |-> MpesaNumber,
              emolaNumber |-> EmolaNumber, appointmentId |-> NULL,
              servicePrice |-> ServicePrice, whatsappNumber |-> WhatsappNumber]
  /\ selectedMethod = "mpesa"
  /\ confirmationMessage = <<>>
  /\ manualCode = <<>>
  /\ extractedData = <<>>
  /\ validation = <<>>
  /\ isManualEntry = FALSE
  /\ isPaymentConfirmed = FALSE
  /\ isValidating = FALSE
  /\ validationError = NULL
  /\ inflight = <<>>
  /\ whatsappOpened = FALSE
  /\ completed = FALSE
  /\ call = NoCall
  /\ lastIndex = ZeroLastIndex
  /\ db = [appointments |-> {}, open |-> [t \in Txns |-> <<>>], statement |-> NoStatement]

NextBooking ==
  \/ \E t \in Txns : \E id \in 1..MaxRows : \E new \in NewAppointments(id) : InsertAppointment(t, new)
  \/ \E t \in Txns : \E old \in db.appointments :
       \E status \in {"pending", "cancelled"} : \E time \in BookingTimes :
         UpdateAppointment(t, old, status, time)
  \/ \E t \in Txns : CommitBooking(t)
  \/ \E t \in Txns : RollbackBooking(t)

SpecBooking == InitBooking /\ [][NextBooking]_vars

(***************************************************************************)
(* Barber accounts and the trigger handle_barber_approval                  *)
(* (src/supabase/migrations/20260128180916_...sql)                         *)
(***************************************************************************)

\* auth.users that ask for a barber account; a barber_id is <<>> (NULL) or <<id>>
AccountUsers == {"u1", "u2"}

\* CHECK (approval_status IN (...))
ApprovalStatuses == {"pending", "approved", "rejected", "blocked"}

\* INSERT INTO public.barbers (name, phone, active) VALUES (..., true) RETURNING id
WithNewBarber(d) == [d EXCEPT !.barbers = Append(@, [active |-> TRUE])]

\* the first IF of the trigger: the status changes to approved
Approved(d, u, old, new) ==
  IF new.approval_status = "approved" /\ old.approval_status # "approved"
  THEN IF new.barber_id = <<>>
       THEN [WithNewBarber(d) EXCEPT
               !.accounts[u] = <<[new EXCEPT !.barber_id = <<Len(d.barbers) + 1>>]>>,
               !.user_roles = @ \cup {<<u, "barber">>}]
       ELSE [d EXCEPT !.accounts[u] = <<new>>, !.user_roles = @ \cup {<<u, "barber">>}]
  ELSE [d EXCEPT !.accounts[u] = <<new>>]

\* UPDATE public.barbers SET active = false WHERE id = NEW.barber_id
Deactivated(d, barber_id) ==
  IF barber_id # <<>> THEN [d EXCEPT !.barbers[barber_id[1]].active = FALSE] ELSE d

\* the second IF of the trigger: an approved account is blocked or rejected
Revoked(d, u, old, new) ==
  IF new.approval_status \in {"blocked", "rejected"} /\ old.approval_status = "approved"
  THEN Deactivated([d EXCEPT !.user_roles = @ \ {<<u, "barber">>}], d.accounts[u][1].barber_id)
  ELSE d

\* BEFORE UPDATE ON public.barber_accounts: the tables after the update of u's row
\* from old to new
handle_barber_approval(d, u, old, new) == Revoked(Approved(d, u, old, new), u, old, new)

ApprovalVarsUnchanged == UNCHANGED <<uiVars, call, lastIndex>>

\* INSERT INTO barber_accounts: a request, pending and without a barber row
RequestBarberAccount(u) ==
  /\ db.accounts[u] = <<>>
  /\ db' = [db EXCEPT !.accounts[u] =
              <<[user_id |-> u, approval_status |-> "pending", barber_id |-> <<>>]>>]
  /\ ApprovalVarsUnchanged

\* UPDATE barber_accounts SET approval_status = status WHERE user_id = u
UpdateApprovalStatus(u, status) ==
  /\ db.accounts[u] # <<>>
  /\ db' = handle_barber_approval(db, u, db.accounts[u][1],
                                  [db.accounts[u][1] EXCEPT !.approval_status = status])
  /\ ApprovalVarsUnchanged

InitApproval ==
  /\ props = [paymentMethods |-> <<"mpesa">>, mpesaNumber |-> MpesaNumber,
              emolaNumber |-> EmolaNumber, appointmentId |-> NULL,
              servicePrice |-> ServicePrice, whatsappNumber |-> WhatsappNumber]
  /\ selectedMethod = "mpesa"
  /\ confirmationMessage = <<>>
  /\ manualCode = <<>>
  /\ extractedData = <<>>
  /\ validation = <<>>
  /\ isManualEntry = FALSE
  /\ isPaymentConfirmed = FALSE
  /\ isValidating = FALSE
  /\ validationError = NULL
  /\ inflight = <<>>
  /\ whatsappOpened = FALSE
  /\ completed = FALSE
  /\ call = NoCall
  /\ lastIndex = ZeroLastIndex
  /\ db = [accounts |-> [u \in AccountUsers |-> <<>>], user_roles |-> {}, barbers |-> <<>>]

NextApproval ==
  \/ \E u \in AccountUsers : RequestBarberAccount(u)
  \/ \E u \in AccountUsers : \E status \in ApprovalStatuses : UpdateApprovalStatus(u, status)

SpecApproval == InitApproval /\ [][NextApproval]_vars

(***************************************************************************)
(* Claims about the library functions (checked under SpecLib)              *)
(***************************************************************************)

\* a call of validatePaymentData has returned
Validated == Returned("validatePaymentData") \/ Returned("extractAndValidate")

\* The normalization the specification describes: strip every non-digit; 9 digits
\* get the prefix 258, 12 digits that start with 258 stay; anything else is null.
StrictNormalize(raw) ==
  LET digits == Filter(raw, Digits)
  IN IF Len(digits) = 9 THEN <<"2", "5", "8">> \o digits
     ELSE IF Len(digits) = 12 /\ startsWith(digits, <<"2", "5", "8">>) THEN digits
     ELSE NULL

\* a string of exactly 12 digits that begins with 258
IsNormalizedPhone(ph) ==
  /\ Len(ph) = 12
  /\ \A k \in 1..Len(ph) : ph[k] \in Digits
  /\ startsWith(ph, <<"2", "5", "8">>)

\* C1: in every ValidationResult that validatePaymentData returns, isReady is the
\* conjunction of hasCode, hasAmount, hasRecipient, amountMatches and
\* recipientMatches.
C1_IsReadyIsConjunction ==
  Validated =>
    LET r == call.returned[1]
    IN r.isReady <=> (r.hasCode /\ r.hasAmount /\ r.hasRecipient /\ r.amountMatches
                      /\ r.recipientMatches)

\* C1 witness: a result with four checks true and recipientMatches false
C1_Witness ==
  /\ Validated
  /\ LET r == call.returned[1]
     IN r.hasCode /\ r.hasAmount /\ r.hasRecipient /\ r.amountMatches
        /\ ~r.recipientMatches /\ ~r.isReady

\* C2: for an extraction result produced by extractPaymentData, whenever the
\* detected recipient differs from the strict 12-digit normalization of the expected
\* recipient, recipientMatches and isReady are false and, when code, amount and
\* recipient are present and the amount matches, the message is the
\* recipient-mismatch one; so recipientMatches holds only for an equal number.
C2_RecipientMismatchRejected ==
  Returned("extractAndValidate") =>
    LET r == call.returned[1]
        detected == call.extracted[1].phone
        expected == StrictNormalize(call.expectedRecipientPhone)
    IN /\ r.recipientMatches => (detected = expected /\ IsNormalizedPhone(detected))
       /\ detected # expected =>
            /\ ~r.recipientMatches
            /\ ~r.isReady
            /\ (r.hasCode /\ r.hasAmount /\ r.hasRecipient /\ r.amountMatches)
                 => r.errorMessage = MsgRecipientMismatch

\* C2 witness: expected 258841234567, detected 258849999999, everything else in order
C2_Witness ==
  /\ Returned("extractAndValidate")
  /\ call.expectedRecipientPhone = <<"2", "5", "8", "8", "4", "1", "2", "3", "4", "5", "6", "7">>
  /\ call.extracted[1].phone = <<"2", "5", "8", "8", "4", "9", "9", "9", "9", "9", "9", "9">>
  /\ call.returned[1].hasCode /\ call.returned[1].amountMatches
  /\ call.returned[1].errorMessage = MsgRecipientMismatch

\* C3: amountMatches is true exactly when an amount was extracted and it differs
\* from the expected amount by strictly less than 50 centavos, above or below.
C3_AmountTolerance ==
  Validated =>
    LET r == call.returned[1]
        detected == call.extracted[1].amount
        diff == detected - call.expectedAmount
    IN r.amountMatches <=> (detected # NoAmount /\ diff > -50 /\ diff < 50)

\* C3 witness: a detected amount exactly 50 centavos below the expected one
C3_Witness ==
  /\ Validated
  /\ call.extracted[1].amount = call.expectedAmount - 50
  /\ ~call.returned[1].amountMatches

\* C4: the message is the one of the first failing check in the order missing code,
\* missing amount, missing recipient, amount mismatch, recipient mismatch, and it
\* is null exactly when all five checks pass.
C4_ErrorMessagePriority ==
  Validated =>
    LET r == call.returned[1]
        e == call.extracted[1]
    IN /\ ~r.hasCode => r.errorMessage = MsgCodeNotDetected
       /\ (r.hasCode /\ ~r.hasAmount) => r.errorMessage = MsgAmountNotDetected
       /\ (r.hasCode /\ r.hasAmount /\ ~r.hasRecipient)
            => r.errorMessage = MsgRecipientNotDetected
       /\ (r.hasCode /\ r.hasAmount /\ r.hasRecipient /\ ~r.amountMatches)
            => r.errorMessage = MsgAmountMismatch(call.expectedAmount, e.amount)
       /\ (r.hasCode /\ r.hasAmount /\ r.hasRecipient /\ r.amountMatches
           /\ ~r.recipientMatches)
            => r.errorMessage = MsgRecipientMismatch
       /\ (r.errorMessage = NULL) <=>
            (r.hasCode /\ r.hasAmount /\ r.hasRecipient /\ r.amountMatches
             /\ r.recipientMatches)

\* C4 witness: code and amount both missing, and the message is the code one
C4_Witness ==
  /\ Validated
  /\ ~call.returned[1].hasCode /\ ~call.returned[1].hasAmount
  /\ call.returned[1].errorMessage = MsgCodeNotDetected

\* C9 (as claimed): normalizePhone returns 258 + digits when the input stripped of
\* its non-digits is 9 digits, the 12 digits when they begin with 258, and null for
\* every other shape.
C9_NormalizeStrict ==
  Returned("normalizePhone") => call.returned[1] = StrictNormalize(call.phone)

\* C10: extractRecipientPhone, and the phone field of extractPaymentData, is null or
\* a string of exactly 12 digits that begins with 258.
C10_PhoneNullOrNormalized ==
  /\ Returned("extractRecipientPhone") =>
       (call.returned[1] = NULL \/ IsNormalizedPhone(call.returned[1]))
  /\ (call.fn = "extractAndValidate" /\ call.extracted # <<>>) =>
       (call.extracted[1].phone = NULL \/ IsNormalizedPhone(call.extracted[1].phone))

\* C10 witness: a phone returned for a message whose digit run after the keyword is
\* longer than 9 digits and carries no 258 prefix
C10_Witness ==
  /\ Returned("extractRecipientPhone")
  /\ call.message = <<"p", "a", "r", "a", " ", "8", "4", "1", "2", "3", "4", "5", "6", "7", "8", "9">>
  /\ call.returned[1] = <<"2", "5", "8", "8", "4", "1", "2", "3", "4", "5", "6", "7">>

(***************************************************************************)
(* Claims about the payment step (checked under Spec)                      *)
(***************************************************************************)

\* a step that sends validate_and_confirm_payment
RpcIssued == Len(inflight') > Len(inflight)

\* C5: validate_and_confirm_payment is sent only from a state whose stored verdict
\* has isReady = true and in which an appointment id exists; no event sends it while
\* the verdict is absent or not ready.
C5_RpcOnlyWhenReady ==
  [][RpcIssued => (validation # <<>> /\ validation[1].isReady
                   /\ props.appointmentId # NULL)]_vars

\* C5 witness: a call was sent, on a ready verdict
C5_Witness ==
  /\ Len(inflight) = 1
  /\ validation # <<>> /\ validation[1].isReady

\* C6: isPaymentConfirmed is false at first and becomes true only in the step that
\* handles a response which is no exception, carries no transport error and says
\* success = true; every other step leaves it as it was.
C6_ConfirmedOnlyOnSuccess ==
  /\ ~isPaymentConfirmed
  /\ [][(isPaymentConfirmed' # isPaymentConfirmed) =>
          /\ isPaymentConfirmed'
          /\ \E k \in 1..Len(inflight) :
               /\ inflight[k].response # <<>>
               /\ inflight[k].response[1].kind = "data"
               /\ inflight[k].response[1].success
               /\ inflight' = RemoveAt(inflight, k)]_vars

\* C6 witness: the payment is confirmed
C6_Witness == isPaymentConfirmed /\ ~isValidating /\ inflight = <<>>

\* C7: at most one validate_and_confirm_payment call is in flight at any time, and
\* once the payment is confirmed no further call is sent.
C7_SingleCallInFlight ==
  [][/\ Len(inflight') <= 1
     /\ isPaymentConfirmed => ~RpcIssued]_vars

\* C7 witness: a call is in flight while the verdict is still ready, so that another
\* click would pass every other test of the handler
C7_Witness ==
  /\ Len(inflight) = 1 /\ isValidating
  /\ VerdictReady /\ props.appointmentId # NULL /\ InputsRendered

\* validatePaymentData recomputed from the current text, the current code field,
\* the price and the selected method's number: the code is the one in the field
\* when the client typed it (none when the field is blank or ill-formed), else the
\* one extracted from the text
RecomputedVerdict ==
  LET data == extractPaymentDataOf(confirmationMessage, selectedMethod)
      typed == IF validateManualCode(manualCode).isValid
               THEN [code |-> trim(toUpperCase(manualCode)), method |-> data.method,
                     confidence |-> "high"]
               ELSE NoCode
      current == IF isManualEntry THEN [data EXCEPT !.code = typed] ELSE data
  IN validatePaymentData(current, props.servicePrice,
                         expectedRecipientPhone(selectedMethod))

\* C8 (as claimed): whenever validate_and_confirm_payment is sent, the stored verdict
\* equals validatePaymentData recomputed from the current state, and the submitted
\* transaction code is non-empty and well-formed.
C8_VerdictNeverStale ==
  [][RpcIssued =>
       /\ validation = <<RecomputedVerdict>>
       /\ toUpperCase(trim(manualCode)) # <<>>
       /\ validateManualCode(manualCode).isValid]_vars

(***************************************************************************)
(* Claims about the extraction functions (checked under SpecLib)           *)
(***************************************************************************)

RECURSIVE TrailingDigitRun(_)
\* the digits a text ends with
TrailingDigitRun(s) ==
  IF s = <<>> \/ s[Len(s)] \notin Digits THEN <<>>
  ELSE TrailingDigitRun(SubSeq(s, 1, Len(s) - 1)) \o <<s[Len(s)]>>

\* C11 (as claimed): extractRecipientPhone returns a phone only for a digit run that
\* is exactly 9 digits (returned with the prefix 258) or exactly 12 digits beginning
\* with 258 (returned as it is); a run of any other length or prefix yields null.
C11_OnlyExactDigitRuns ==
  Returned("extractRecipientPhone") =>
    LET run == TrailingDigitRun(call.message)
        phone == call.returned[1]
    IN phone # NULL =>
         \/ Len(run) = 9 /\ phone = <<"2", "5", "8">> \o run
         \/ Len(run) = 12 /\ startsWith(run, <<"2", "5", "8">>) /\ phone = run

\* the code tier k of extractTransactionCode finds in a message: <<>> when the tier
\* does not match, else <<code>>
TierCode(k, message) ==
  LET upperMessage == toUpperCase(message)
      pattern == CASE k = 1 -> EMOLA_PATTERN_A
                   [] k = 2 -> EMOLA_PATTERN_B
                   [] k = 3 -> MPESA_PATTERN_CONFIRMED
                   [] k = 4 -> EMOLA_PATTERN_GENERIC
                   [] k = 5 -> MPESA_PATTERN_FALLBACK
      m == Search(pattern, IF k = 3 THEN message ELSE upperMessage, 0)
      shaped == FilterMatches(upperMessage, MatchAll(pattern, upperMessage))
  IN IF k = 5 THEN (IF shaped = <<>> THEN <<>> ELSE <<shaped[1]>>)
     ELSE IF ~m.found THEN <<>>
     ELSE IF k = 3 THEN <<toUpperCase(Group1(message, m))>>
     ELSE <<MatchText(upperMessage, m)>>

\* the first tier that matches, 0 when none does
LowestTier(message) ==
  IF \E k \in 1..5 : TierCode(k, message) # <<>>
  THEN CHOOSE k \in 1..5 : /\ TierCode(k, message) # <<>>
                           /\ \A j \in 1..(k - 1) : TierCode(j, message) = <<>>
  ELSE 0

\* the provider a tier implies
TierProvider(k) == IF k \in {1, 2, 4} THEN "emola" ELSE "mpesa"

\* C12: extractTransactionCode returns the match of the first of the tiers eMola A,
\* eMola B, Confirmado, generic eMola, generic M-Pesa that matches, with confidence
\* high for tiers 1-3 and medium for tiers 4-5, and null only when no tier matches.
C12_FirstMatchingTierWins ==
  Returned("extractTransactionCode") =>
    LET t == LowestTier(call.message)
        r == call.returned[1]
    IN IF t = 0 THEN r.code = NULL
       ELSE /\ <<r.code>> = TierCode(t, call.message)
            /\ r.confidence = (IF t <= 3 THEN "high" ELSE "medium")

\* C12 witness: a marked M-Pesa code comes first in the message and an eMola code of
\* form A after it; the eMola code is returned
C12_Witness ==
  /\ Returned("extractTransactionCode")
  /\ call.message = <<"C", "o", "n", "f", "i", "r", "m", "a", "d", "o", " ", "D", "A", "T", "2", "I", "V", "Y", "A", "7", "R", "0", " ", "P", "P", "2", "6", "0", "1", "1", "6", ".", "2", "0", "2", "6", ".", "W", "2", "2", "1", "5", "6", " ">>
  /\ call.returned[1].code = <<"P", "P", "2", "6", "0", "1", "1", "6", ".", "2", "0", "2", "6", ".", "W", "2", "2", "1", "5", "6">>
  /\ call.returned[1].confidence = "high"

\* the message names M-Pesa (detectPaymentMethod tests these two spellings first)
NamesMpesa(message) ==
  includes(toLowerCase(message), <<"m", "-", "p", "e", "s", "a">>) \/ includes(toLowerCase(message), <<"m", "p", "e", "s", "a">>)

\* the message names eMola
NamesEmola(message) ==
  includes(toLowerCase(message), <<"e", "m", "o", "l", "a">>) \/ includes(toLowerCase(message), <<"e", "-", "m", "o", "l", "a">>)

\* C13: the method of a returned code is the provider the message names when it
\* names one (M-Pesa before eMola), else the provider the matching tier implies; it
\* is never unknown.
C13_MethodOfReturnedCode ==
  (Returned("extractTransactionCode") /\ call.returned[1].code # NULL) =>
    LET r == call.returned[1]
        t == LowestTier(call.message)
    IN /\ r.method = (IF NamesMpesa(call.message) THEN "mpesa"
                      ELSE IF NamesEmola(call.message) THEN "emola"
                      ELSE TierProvider(t))
       /\ r.method \in {"mpesa", "emola"}

\* C13 witness: the message names M-Pesa and holds an eMola code of form A
C13_Witness ==
  /\ Returned("extractTransactionCode")
  /\ call.message = <<"M", "-", "P", "e", "s", "a", " ", "P", "P", "2", "6", "0", "1", "1", "6", ".", "2", "0", "2", "6", ".", "W", "2", "2", "1", "5", "6", " ">>
  /\ call.returned[1].code = <<"P", "P", "2", "6", "0", "1", "1", "6", ".", "2", "0", "2", "6", ".", "W", "2", "2", "1", "5", "6">>
  /\ call.returned[1].method = "mpesa"

\* the message holds no Confirmado marker
NoConfirmadoMarker(message) == ~includes(toLowerCase(message), <<"c", "o", "n", "f", "i", "r", "m", "a", "d", "o">>)

\* C14 (as claimed): for a message with an eMola code of form A and no Confirmado
\* marker, the code is returned with method emola and confidence high.
C14_EmolaCodeAlwaysEmola ==
  (/\ Returned("extractTransactionCode")
   /\ TierCode(1, call.message) # <<>>
   /\ NoConfirmadoMarker(call.message)) =>
    /\ <<call.returned[1].code>> = TierCode(1, call.message)
    /\ call.returned[1].method = "emola"
    /\ call.returned[1].confidence = "high"

\* C14 (amended): for a message with an eMola code of form A, no Confirmado marker
\* and no mention of M-Pesa, the code (the first of that form, in upper case) is
\* returned with method emola and confidence high, whether or not the message
\* names eMola.
C14_EmolaCodeUnlessMpesaNamed ==
  (/\ Returned("extractTransactionCode")
   /\ TierCode(1, call.message) # <<>>
   /\ NoConfirmadoMarker(call.message)
   /\ ~NamesMpesa(call.message)) =>
    /\ <<call.returned[1].code>> = TierCode(1, call.message)
    /\ call.returned[1].method = "emola"
    /\ call.returned[1].confidence = "high"

\* C14 witness: an eMola code of form A in a message that names no provider
C14_Witness ==
  /\ Returned("extractTransactionCode")
  /\ call.message = <<"P", "P", "2", "6", "0", "1", "1", "6", ".", "2", "0", "2", "6", ".", "W", "2", "2", "1", "5", "6", " ", "A", "B", "1", "2", "3", "4", "5", "6", "7", "8", " ">>
  /\ call.returned[1] = [code |-> <<"P", "P", "2", "6", "0", "1", "1", "6", ".", "2", "0", "2", "6", ".", "W", "2", "2", "1", "5", "6">>, method |-> "emola",
                         confidence |-> "high"]

\* the values, in centavos and in the order of the text, of the tokens that pattern
\* k of AMOUNT_PATTERNS finds in a message
AmountsOf(k, message) ==
  LET ms == MatchAll(AMOUNT_PATTERNS[k], message)
  IN [j \in 1..Len(ms) |-> ParseAmount(Group1(message, ms[j]))]

\* the first positive value of a sequence of values, none when there is none
FirstPositive(values) ==
  IF \E j \in 1..Len(values) : values[j] > 0
  THEN values[CHOOSE j \in 1..Len(values) :
                /\ values[j] > 0
                /\ \A i \in 1..(j - 1) : values[i] <= 0]
  ELSE NoAmount

\* C15 (as claimed): extractAmount returns the first positive numeric token followed
\* by MT, and null whenever the message holds no positive token followed by MT.
C15_FirstPositiveMtToken ==
  Returned("extractAmount") =>
    call.returned[1] = FirstPositive(AmountsOf(1, call.message))

\* C15 (amended): extractAmount returns the first positive numeric token followed by
\* MT; when the message holds none, the first positive number that follows one of
\* the keywords transferiste, recebeste, enviaste, valor, montante; and null only
\* when there is none of either kind.
C15_MtTokenThenKeywordNumber ==
  Returned("extractAmount") =>
    call.returned[1] =
      (IF FirstPositive(AmountsOf(1, call.message)) # NoAmount
       THEN FirstPositive(AmountsOf(1, call.message))
       ELSE FirstPositive(AmountsOf(2, call.message)))

\* C15 witness: the number after a keyword comes first in the text and yields to the
\* later token followed by MT, whose comma is read as a decimal point
C15_Witness ==
  /\ Returned("extractAmount")
  /\ call.message = <<"v", "a", "l", "o", "r", ":", " ", "7", "0", " ", "1", "2", ",", "5", " ", "m", "t", " ">>
  /\ call.returned[1] = 1250

(***************************************************************************)
(* Claims about validateManualCode (checked under SpecLib)                 *)
(***************************************************************************)

\* the typed code as validateManualCode reads it: upper case, no blanks around it
TypedCode == trim(toUpperCase(call.code))

\* 10-12 upper-case letters and digits, at least one of each, no PP or CI in front
MpesaGrammar(u) ==
  /\ Len(u) >= 10 /\ Len(u) <= 12
  /\ \A k \in 1..Len(u) : u[k] \in UpperLetters \cup Digits
  /\ \E k \in 1..Len(u) : u[k] \in UpperLetters
  /\ \E k \in 1..Len(u) : u[k] \in Digits
  /\ ~(Len(u) >= 2 /\ SubSeq(u, 1, 2) \in {<<"P", "P">>, <<"C", "I">>})

\* PP or CI, then 6 or more upper-case letters, digits or dots
LooseEmolaGrammar(u) ==
  /\ Len(u) >= 8
  /\ SubSeq(u, 1, 2) \in {<<"P", "P">>, <<"C", "I">>}
  /\ \A k \in 3..Len(u) : u[k] \in UpperLetters \cup Digits \cup {"."}

\* C16: validateManualCode answers valid, mpesa exactly for the codes of the M-Pesa
\* grammar; a code of fewer than 10 characters is invalid with method null; and
\* invalid always comes with method null.
C16_MpesaGrammarAndShortCodes ==
  Returned("validateManualCode") =>
    LET r == call.returned[1]
    IN /\ (r = [isValid |-> TRUE, method |-> "mpesa"]) <=> MpesaGrammar(TypedCode)
       /\ Len(TypedCode) < 10 => r = [isValid |-> FALSE, method |-> "null"]
       /\ ~r.isValid => r.method = "null"

\* C16 witness: a code of the M-Pesa grammar typed in lower case between blanks
C16_Witness ==
  /\ Returned("validateManualCode")
  /\ call.code = <<" ", "a", "b", "1", "2", "c", "d", "3", "4", "e", "f", " ">>
  /\ call.returned[1] = [isValid |-> TRUE, method |-> "mpesa"]

\* C17 (as claimed): every code of the loose eMola grammar, of 8 characters or more,
\* is answered valid, emola.
C17_LooseEmolaAccepted ==
  (Returned("validateManualCode") /\ LooseEmolaGrammar(TypedCode)) =>
    call.returned[1] = [isValid |-> TRUE, method |-> "emola"]

(***************************************************************************)
(* Claims about the results of the exported functions (checked under       *)
(* SpecLib)                                                                *)
(***************************************************************************)

\* an ExtractedPaymentData: each field is a value of its type or the null of it
IsExtractedPaymentData(e) ==
  /\ \/ e.code = NoCode
     \/ /\ e.code.code # <<>> /\ e.code.code # NULL
        /\ e.code.method \in {"mpesa", "emola"}
        /\ e.code.confidence \in {"high", "medium"}
  /\ e.amount = NoAmount \/ e.amount > 0
  /\ e.phone = NULL \/ IsNormalizedPhone(e.phone)
  /\ e.method \in {"mpesa", "emola", "unknown"}

\* a ValidationResult: six booleans and a message or null
IsValidationResult(r) ==
  /\ DOMAIN r = {"isReady", "hasCode", "hasAmount", "hasRecipient", "amountMatches",
                 "recipientMatches", "errorMessage"}
  /\ \A f \in DOMAIN r \ {"errorMessage"} : r[f] \in BOOLEAN

\* C19: every call of an exported function returns a result of its declared shape:
\* a field the extraction misses is null, a validation that fails has isReady false
\* (with a message) or isValid false (with method null).
C19_StructuredResults ==
  /\ Returned("normalizePhone") =>
       \A k \in 1..Len(call.returned[1]) : call.returned[1][k] \in Digits \cup {"+"}
  /\ Returned("validateManualCode") =>
       /\ call.returned[1] \in [isValid : BOOLEAN, method : {"mpesa", "emola", "null"}]
       /\ call.returned[1].isValid <=> call.returned[1].method # "null"
  /\ (call.fn = "extractAndValidate" /\ call.extracted # <<>>) =>
       IsExtractedPaymentData(call.extracted[1])
  /\ (Returned("validatePaymentData") \/ Returned("extractAndValidate")) =>
       LET e == call.extracted[1]
           r == call.returned[1]
       IN /\ IsValidationResult(r)
          /\ (e.code = NoCode \/ e.amount = NoAmount \/ e.phone = NULL) =>
               ~r.isReady /\ r.errorMessage # NULL
          /\ r.isReady => r.errorMessage = NULL

\* C19 witness: a message in which nothing is found gives three null fields and a
\* verdict that is not ready
C19_Witness ==
  /\ Returned("extractAndValidate")
  /\ call.extracted[1].code = NoCode
  /\ call.extracted[1].amount = NoAmount
  /\ call.extracted[1].phone = NULL
  /\ ~call.returned[1].isReady

(***************************************************************************)
(* Claims about the messages of a rejected payment (checked under Spec)    *)
(***************************************************************************)

\* the message the claim gives to a response with success = false
ClaimedRejectionMessage(result) ==
  CASE result.code = "CODE_REUSED" -> ErrCodeReused
    [] result.code = "ALREADY_CONFIRMED" -> ErrAlreadyConfirmed
    [] OTHER -> IF result.error # "" THEN <<result.error>>
                ELSE IF result.code = "VALIDATION_FAILED" THEN ErrValidationFailed
                ELSE ErrGeneric

\* C20: when a response with success = false is received, CODE_REUSED and
\* ALREADY_CONFIRMED show their own fixed messages whatever the server's text, the
\* two are different and neither is a generic message; any other code shows the
\* server's text, or a generic message when there is none.
C20_RejectionMessages ==
  [][\A k \in 1..Len(inflight) :
       (/\ inflight[k].response # <<>>
        /\ inflight[k].response[1].kind = "data"
        /\ ~inflight[k].response[1].success
        /\ inflight' = RemoveAt(inflight, k))
       => /\ validationError' = ClaimedRejectionMessage(inflight[k].response[1])
          /\ ErrCodeReused # ErrAlreadyConfirmed
          /\ {ErrCodeReused, ErrAlreadyConfirmed} \cap {ErrGeneric, ErrValidationFailed} = {}]_vars

\* C20 witness: the message of ALREADY_CONFIRMED is on the screen after a response
C20_Witness ==
  /\ validationError = ErrAlreadyConfirmed
  /\ inflight = <<>>
  /\ ~isValidating
  /\ ~isPaymentConfirmed

(***************************************************************************)
(* Claims about repeated calls (checked under SpecCalls)                   *)
(***************************************************************************)

\* the largest lastIndex a pattern is supposed to have been left with
MaxCursor == 8

\* every pattern left at the same position c
CursorsAt(c) ==
  [emolaA |-> c, emolaB |-> c, emolaGeneric |-> c, mpesaFallback |-> c,
   amount |-> <<c, c>>, recipient |-> <<c, c, c>>]

\* C18: whatever calls came before, a call of extractPaymentData (and of each of
\* the three extractors it is made of) returns what the first call on fresh
\* patterns returns for the same arguments; the lastIndex values an earlier call
\* could have left, and any other, change nothing; and every call leaves every
\* module-level pattern at lastIndex 0.
C18_LastIndexNeverMatters ==
  /\ lastIndex = ZeroLastIndex
  /\ (call.fn = "extractPaymentData") =>
       /\ call.returned[1] = extractPaymentData(call.message, call.preferredMethod)
       /\ \A c \in 0..MaxCursor :
            extractPaymentDataWith(call.message, call.preferredMethod, CursorsAt(c)).result
              = call.returned[1]
  /\ (call.fn = "extractTransactionCode" /\ call.nth > 0) =>
       call.returned[1] = extractTransactionCode(call.message)
  /\ (call.fn = "extractAmount" /\ call.nth > 0) =>
       call.returned[1] = extractAmount(call.message)
  /\ (call.fn = "extractRecipientPhone" /\ call.nth > 0) =>
       call.returned[1] = extractRecipientPhone(call.message)

\* C18 witness: the last call of a series, on a message with two eMola codes and two
\* amounts, returns the first code and the first positive amount
C18_Witness ==
  /\ call.fn = "extractPaymentData"
  /\ call.nth = MaxCalls
  /\ call.message = <<"P", "P", "1", "2", "3", "4", "5", "6", " ", "P", "P", "1", "2", "3", "4", "5", "7", " ", "0", "M", "T", " ", "8", "M", "T", " ", "p", "/", "8", "4", "1", "2", "3", "4", "5", "6", "7">>
  /\ call.returned[1].code.code = <<"P", "P", "1", "2", "3", "4", "5", "6">>
  /\ call.returned[1].amount = 800
  /\ call.returned[1].phone = <<"2", "5", "8", "8", "4", "1", "2", "3", "4", "5", "6", "7">>

(***************************************************************************)
(* Claims about the end of a confirm attempt (checked under SpecFair)      *)
(***************************************************************************)

\* C21: a confirm attempt in progress always ends with isValidating back to false,
\* and when it ends without success (rejection, transport error, exception) the
\* payment is still unconfirmed, an error is shown, the inputs are as the client
\* left them, and handleConfirmPayment accepts a new attempt whenever the verdict is
\* ready.
C21_AttemptEndsAndCanBeRetried ==
  /\ isValidating ~> ~isValidating
  /\ [][\A k \in 1..Len(inflight) :
          (/\ inflight[k].response # <<>>
           /\ inflight' = RemoveAt(inflight, k)
           /\ ~(inflight[k].response[1].kind = "data" /\ inflight[k].response[1].success))
          => /\ ~isValidating'
             /\ ~isPaymentConfirmed'
             /\ validationError' # NULL
             /\ <<confirmationMessage, manualCode, selectedMethod>>' = <<confirmationMessage, manualCode, selectedMethod>>
             /\ (VerdictReady' /\ props.appointmentId \notin {NULL, <<>>})
                  => ConfirmGuard']_vars

\* C21 witness: after a thrown exception the flag is clear, the error is shown and
\* the same confirmation is ready to be submitted again
C21_Witness ==
  /\ validationError = ErrUnexpected
  /\ ~isValidating
  /\ ~isPaymentConfirmed
  /\ inflight = <<>>
  /\ ConfirmGuard

(***************************************************************************)
(* Claims about the WhatsApp link (checked under SpecLib)                  *)
(***************************************************************************)

\* the characters of link between the prefix https://wa.me/ and the first ?
LinkPhone(link) ==
  LET marks == {k \in 15..Len(link) : link[k] = "?"}
  IN IF marks = {} THEN SubSeq(link, 15, Len(link))
     ELSE SubSeq(link, 15, (CHOOSE k \in marks : \A j \in marks : k <= j) - 1)

\* C22 (as claimed): the link is https://wa.me/<phone>?text=<encoded message> with
\* <phone> made of exactly 12 digits that begin with 258.
C22_LinkCarriesNormalizedPhone ==
  Returned("generateWhatsAppLink") =>
    LET link == call.returned[1]
    IN /\ link = <<"h", "t", "t", "p", "s", ":", "/", "/", "w", "a", ".", "m", "e", "/">> \o LinkPhone(link) \o <<"?", "t", "e", "x", "t", "=">> \o encodeURIComponent(call.message)
       /\ IsNormalizedPhone(LinkPhone(link))

(***************************************************************************)
(* Claims about eMola-shaped codes (checked under SpecLib)                 *)
(***************************************************************************)

\* C23 (as claimed): for a message that names no provider, a returned code that
\* begins with PP or CI never has method mpesa.
C23_EmolaPrefixNeverMpesa ==
  (/\ Returned("extractTransactionCode")
   /\ ~NamesMpesa(call.message) /\ ~NamesEmola(call.message)
   /\ call.returned[1] # NoCode
   /\ SubSeq(call.returned[1].code, 1, 2) \in {<<"P", "P">>, <<"C", "I">>})
  => call.returned[1].method # "mpesa"

(***************************************************************************)
(* Claims about the WhatsApp step (checked under Spec)                     *)
(***************************************************************************)

\* C24: onComplete has been called only if the server confirmed the payment, the
\* business has a WhatsApp number and openWhatsApp returned true; it is called in
\* the very step in which openWhatsApp returns true; and as long as the payment is
\* not confirmed nothing of the WhatsApp step happens.
C24_CompleteOnlyAfterConfirmAndOpen ==
  /\ [](completed => (isPaymentConfirmed /\ whatsappOpened /\ trim(props.whatsappNumber) # <<>>))
  /\ [](~isPaymentConfirmed => (~whatsappOpened /\ ~completed))
  /\ [][(completed' /\ ~completed) => (isPaymentConfirmed /\ ~whatsappOpened /\ whatsappOpened')]_vars

\* C24 witness: the payment is confirmed, a first openWhatsApp failed or the link
\* was opened, and onComplete was called
C24_Witness ==
  /\ completed
  /\ whatsappOpened
  /\ isPaymentConfirmed
  /\ validationError = NULL

(***************************************************************************)
(* Claims about the time slots (checked under SpecSlots)                   *)
(***************************************************************************)

\* a call of the generator with buffers has returned
GeneratedWithBuffers ==
  call.fn = "generateBusinessTimeSlots" /\ call.variant = "buffers" /\ call.pc = "returned"

\* the minutes of day of the k-th returned slot, <<>> when it is not a time of day
SlotMinutes(k) == parseTimeToMinutes(call.slots[k])

\* C25: every slot the generator with buffers returns is a time of day s with
\* opening + prepBuffer <= s <= closing - cleanupBuffer, s is a multiple of the
\* effective interval (the given one if positive, else 30), each slot is one
\* interval after the one before it, and nothing is returned when a time is
\* missing or does not parse or when opening + prepBuffer >= closing - cleanupBuffer
C25_SlotsInsideWindowOnGrid ==
  GeneratedWithBuffers =>
    LET missing == IsMissing(call.openingTime) \/ IsMissing(call.closingTime)
        opening == IF missing THEN <<>> ELSE parseTimeToMinutes(call.openingTime)
        closing == IF missing THEN <<>> ELSE parseTimeToMinutes(call.closingTime)
        step    == IF call.intervalMinutes > 0 THEN call.intervalMinutes ELSE 30
    IN IF opening = <<>> \/ closing = <<>>
       THEN call.slots = <<>>
       ELSE LET first == opening[1] + call.prepBufferMinutes
                last  == closing[1] - call.cleanupBufferMinutes
            IN /\ first >= last => call.slots = <<>>
               /\ \A k \in 1..Len(call.slots) :
                    /\ SlotMinutes(k) # <<>>
                    /\ first <= SlotMinutes(k)[1]
                    /\ SlotMinutes(k)[1] <= last
                    /\ SlotMinutes(k)[1] % step = 0
                    /\ k > 1 => SlotMinutes(k)[1] = SlotMinutes(k - 1)[1] + step

\* slots were returned for an interval that is not positive, with both buffers set,
\* and the first slot is later than opening + prepBuffer
C25_Witness ==
  /\ GeneratedWithBuffers
  /\ call.intervalMinutes <= 0
  /\ call.prepBufferMinutes > 0
  /\ call.cleanupBufferMinutes > 0
  /\ Len(call.slots) >= 2
  /\ SlotMinutes(1)[1] > parseTimeToMinutes(call.openingTime)[1] + call.prepBufferMinutes

\* a call of filterAvailableSlots (either variant) has returned
Filtered == call.fn = "filterAvailableSlots" /\ call.pc = "returned"

RECURSIVE IsSubsequence(_, _)
\* the elements of s are elements of t, in the order of t
IsSubsequence(s, t) ==
  IF s = <<>> THEN TRUE
  ELSE IF t = <<>> THEN FALSE
  ELSE IF Head(s) = Head(t) THEN IsSubsequence(Tail(s), Tail(t))
  ELSE IsSubsequence(s, Tail(t))

\* [s, s + d) and [a, a + e) have a minute in common
IntervalsOverlap(s, d, a, e) ==
  (IF s > a THEN s ELSE a) < (IF s + d < a + e THEN s + d ELSE a + e)

\* the returned slot at k, a time of day starting at minute start, is free and ends in time
SlotIsFree(start) ==
  /\ \A j \in 1..Len(call.existingAppointments) :
       LET taken == parseTimeToMinutes(call.existingAppointments[j].appointment_time)
       IN taken # <<>> =>
            ~IntervalsOverlap(start, call.serviceDuration,
                              taken[1], call.existingAppointments[j].duration)
  /\ LET closing == IF IsMissing(call.closingTime) THEN <<>>
                    ELSE parseTimeToMinutes(call.closingTime)
     IN closing # <<>> =>
          start + call.serviceDuration <= closing[1] - call.cleanupBufferMinutes

\* C26: whatever the input, the slots filterAvailableSlots returns are slots of
\* allSlots in their order, none overlaps an existing appointment
\* [start, start + duration), and each ends no later than closing time minus
\* the cleanup buffer
C26_ReturnedSlotsAreFree ==
  Filtered =>
    /\ IsSubsequence(call.slots, call.allSlots)
    /\ \A k \in 1..Len(call.slots) :
         parseTimeToMinutes(call.slots[k]) # <<>> =>
           SlotIsFree(parseTimeToMinutes(call.slots[k])[1])

\* C28: generateBusinessTimeSlots returns after finitely many rounds for every
\* intervalMinutes, zero and negative too, in both variants: every round of the
\* loop leaves currentMinutes closer to the value that ends the loop
C28_EveryRoundNearsTheEnd ==
  [][(call.fn = "generateBusinessTimeSlots" /\ call.pc = "loop" /\ call'.pc = "loop")
       => call'.limit - call'.currentMinutes < call.limit - call.currentMinutes]_vars

(***************************************************************************)
(* Claims about the appointments table (checked under SpecBooking)         *)
(***************************************************************************)

\* two rows that are not cancelled, of one professional on one date, whose
\* [start, start + service duration) have a minute in common
DoubleBooked(a, b) ==
  /\ a.id # b.id
  /\ a.barber_id = b.barber_id
  /\ a.appointment_date = b.appointment_date
  /\ a.status # "cancelled"
  /\ b.status # "cancelled"
  /\ IntervalsOverlap(a.appointment_time, Services[a.service_id].duration,
                      b.appointment_time, Services[b.service_id].duration)

\* C27: whatever is inserted and updated, by two transactions at once too, the
\* table never holds two overlapping appointments of one professional on one
\* date that are not cancelled, and a write that would overlap a stored
\* appointment is rejected with 'Horario indisponivel'
C27_NoDoubleBooking ==
  /\ [](\A a \in db.appointments : \A b \in db.appointments : ~DoubleBooked(a, b))
  /\ [][(/\ db'.statement # db.statement
         /\ db'.statement.new.status # "cancelled"
         /\ \E a \in db.appointments : DoubleBooked(db'.statement.new, a))
        => db'.statement.error # BookingOk]_vars

\* C29: a code extractTransactionCode returns is a code validateManualCode
\* accepts, and when the message names no provider validateManualCode gives the
\* code the method the extractor gave it
C29_ExtractedCodeIsValidManualCode ==
  (Returned("extractTransactionCode") /\ call.returned[1] # NoCode)
  => /\ validateManualCode(call.returned[1].code).isValid
     /\ ((~NamesMpesa(call.message) /\ ~NamesEmola(call.message))
          => validateManualCode(call.returned[1].code).method = call.returned[1].method)

(***************************************************************************)
(* Claims about the barber accounts (checked under SpecApproval)           *)
(***************************************************************************)

\* C30: whatever approval_status updates are made, a user holds the role
\* 'barber' only while the account is approved, and the barber row of an
\* approved account is active
C30_RoleAndBarberFollowApproval ==
  \A u \in AccountUsers :
    db.accounts[u] # <<>> =>
      /\ <<u, "barber">> \in db.user_roles => db.accounts[u][1].approval_status = "approved"
      /\ (db.accounts[u][1].approval_status = "approved" /\ db.accounts[u][1].barber_id # <<>>)
           => db.barbers[db.accounts[u][1].barber_id[1]].active

====
